---- MODULE Spec2Model ----
(***************************************************************************)
(* CGRtools: the reader/writer of condensed graphs of reaction             *)
(* (files/CGRrw.py) and the CGR container algorithms (containers/cgr.py).  *)
(*                                                                         *)
(* The module holds several state machines over one set of variables; each *)
(* specification initialises the variables of the machine it runs and      *)
(* parks the others at their idle value.                                   *)
(*                                                                         *)
(*   SpecReaction   CGRread._get_reaction: map assignment, duplicate       *)
(*                  check, gap closure, construction of the container      *)
(*   SpecViews      CGRContainer.decompose and get_center_atoms            *)
(*   SpecHydrogens  CGRContainer.implicify_hydrogens, explicify_hydrogens  *)
(*   SpecMarks      CGRContainer.reset_query_marks, bond by bond           *)
(*   SpecMutate     sequences of the three mutating calls on one container *)
(*   SpecCharge     CGRwrite.__charge against CGRread.__cgr_atom_dat       *)
(*   SpecCodec      CGRwrite.get_formatted_cgr, then CGRread._get_molecule *)
(*   SpecCollect    CGRread._collect, _flush_collected, _get_collected     *)
(*   SpecParse      CGRread._get_molecule on blocks with extension records *)
(*   SpecRecord     CGRread.__cgr_dat on one dynamic or list record value  *)
(*   SpecStereo     CGRread._get_molecule on blocks with wedge bonds       *)
(***************************************************************************)
EXTENDS Integers, Sequences, FiniteSets, TLC

VARIABLES
    pc,         \* position of the running call
    reaction,   \* _get_reaction: the parsed reaction (per role, molecules as lists of atom map numbers)
    remap,      \* CGRread.__remap
    maps,       \* _get_reaction: local `maps`
    length,     \* _get_reaction: next value of the iterator `length`
    rc,         \* _get_reaction: the ReactionContainer built (per role, node identifiers of each graph)
    prop,       \* CGRread.__prop: the pending records, in insertion order, as <<key, dict>> pairs
    collected,  \* what the last call on the pending records returned or raised (<<>> for None)
    g,          \* the CGRContainer: node order, atoms, adjacency (in insertion order), bonds
    g0,         \* the CGRContainer as it was constructed
    cache,      \* TRUE while cached derived results of g are held (cleared by flush_cache)
    ret,        \* value returned (or exception raised) by the last call on g
    rq,         \* reset_query_marks: the locals of the running call
    cin,        \* codec: what is given to the writer (a graph, or the two charge values of an atom)
    enc,        \* codec: what the writer produced
    mol,        \* codec: the parsed molecule block handed to the reader
    dec         \* codec: what the reader produced

vars == <<pc, reaction, remap, maps, length, rc, prop, collected, g, g0, cache, ret, rq, cin, enc, mol, dec>>

cvars == <<cin, enc, mol, dec>>

\* the variables of a machine that is not running
IdleGraph == /\ g = <<>> /\ g0 = <<>> /\ cache = FALSE /\ ret = <<>> /\ rq = <<>>

IdleCodec == /\ cin = <<>> /\ enc = <<>> /\ mol = <<>> /\ dec = <<>>

IdleReaction ==
    /\ reaction = <<>> /\ remap = FALSE /\ maps = <<>> /\ length = 0 /\ rc = <<>>
    /\ prop = <<>> /\ collected = <<>>

gvars == <<g, g0, cache, ret, rq>>

rvars == <<reaction, remap, maps, length, rc, prop, collected>>

(***************************************************************************)
(* Generic helpers                                                         *)
(***************************************************************************)
None == "None"

\* Python None where the other values are integers (bond orders, charges)
NoneOrder == -1

\* an undirected edge
Pair(n, m) == {n, m}

Range(s) == {s[i] : i \in DOMAIN s}

RECURSIVE SeqMax(_)
\* max(seq, default=0) over a list of non-negative integers
SeqMax(s) == IF s = <<>> THEN 0
             ELSE LET m == SeqMax(Tail(s)) IN IF Head(s) > m THEN Head(s) ELSE m

Max2(a, b) == IF a > b THEN a ELSE b

RECURSIVE Flatten(_)
Flatten(ss) == IF ss = <<>> THEN <<>> ELSE Head(ss) \o Flatten(Tail(ss))

RECURSIVE SetToSortedSeq(_, _)
\* sorted(S) for reverse = FALSE, sorted(S, reverse=True) for reverse = TRUE
SetToSortedSeq(S, reverse) ==
    IF S = {} THEN <<>>
    ELSE LET x == IF reverse THEN CHOOSE y \in S : \A z \in S : z <= y
                             ELSE CHOOSE y \in S : \A z \in S : y <= z
         IN <<x>> \o SetToSortedSeq(S \ {x}, reverse)

(***************************************************************************)
(* Text.  A Python string is the sequence of its characters; an attribute  *)
(* value that is either a scalar or a list is a record [list, v] with the  *)
(* scalar x as [list |-> FALSE, v |-> <<x>>].                              *)
(***************************************************************************)
Scalar(x) == [list |-> FALSE, v |-> <<x>>]

List(xs) == [list |-> TRUE, v |-> xs]

Digits == <<"0", "1", "2", "3", "4", "5", "6", "7", "8", "9">>

RECURSIVE StrNat(_)
\* str(n), '%d' % n for n >= 0
StrNat(n) == IF n < 10 THEN <<Digits[n + 1]>> ELSE StrNat(n \div 10) \o <<Digits[(n % 10) + 1]>>

\* str(n)
StrInt(n) == IF n < 0 THEN <<"-">> \o StrNat(-n) ELSE StrNat(n)

\* '%+d' % n
FmtSigned(n) == IF n < 0 THEN <<"-">> \o StrNat(-n) ELSE <<"+">> \o StrNat(n)

RECURSIVE Join(_, _)
\* sep.join(parts)
Join(parts, sep) ==
    IF parts = <<>> THEN <<>>
    ELSE IF Len(parts) = 1 THEN parts[1]
    ELSE parts[1] \o <<sep>> \o Join(Tail(parts), sep)

RECURSIVE SplitFrom(_, _, _)
SplitFrom(str, sep, cur) ==
    IF str = <<>> THEN <<cur>>
    ELSE IF Head(str) = sep THEN <<cur>> \o SplitFrom(Tail(str), sep, <<>>)
    ELSE SplitFrom(Tail(str), sep, Append(cur, Head(str)))

\* str.split(sep)
Split(str, sep) == SplitFrom(str, sep, <<>>)

IsDigit(c) == \E d \in DOMAIN Digits : Digits[d] = c

DigitValue(c) == (CHOOSE d \in DOMAIN Digits : Digits[d] = c) - 1

RECURSIVE NatValue(_, _)
NatValue(str, acc) == IF str = <<>> THEN acc ELSE NatValue(Tail(str), 10 * acc + DigitValue(Head(str)))

\* int(str): an optional sign and at least one digit, ValueError otherwise
ParseInt(str) ==
    LET signed == str # <<>> /\ Head(str) \in {"+", "-"}
        body == IF signed THEN Tail(str) ELSE str
    IN IF body = <<>> \/ \E k \in DOMAIN body : ~IsDigit(body[k])
       THEN [ok |-> FALSE, val |-> 0]
       ELSE [ok |-> TRUE, val |-> IF signed /\ Head(str) = "-" THEN -NatValue(body, 0) ELSE NatValue(body, 0)]

\* len(set(xs)) == len(xs)
Distinct(xs) == Cardinality(Range(xs)) = Len(xs)

\* xs[start::2] with start counted from 0
EveryOther(xs, start) == [k \in 1..((Len(xs) - start + 1) \div 2) |-> xs[start + 2 * k - 1]]

\* list(zip(xs, ys))
Zip(xs, ys) == [k \in 1..(IF Len(xs) < Len(ys) THEN Len(xs) ELSE Len(ys)) |-> <<xs[k], ys[k]>>]

(***************************************************************************)
(* CGRwrite.__charge, CGRread.__cgr_atom_dat                               *)
(***************************************************************************)
\* toMDL.get(charge, 0)
ToMDL(charge) ==
    CASE charge = -3 -> 7 [] charge = -2 -> 6 [] charge = -1 -> 5 [] charge = 0 -> 0
      [] charge = 1 -> 3 [] charge = 2 -> 2 [] charge = 3 -> 1 [] OTHER -> 0

\* fromMDL[code]
FromMDL(code) ==
    CASE code = 0 -> 0 [] code = 1 -> 3 [] code = 2 -> 2 [] code = 3 -> 1
      [] code = 4 -> 0 [] code = 5 -> -1 [] code = 6 -> -2 [] code = 7 -> -3

Meta(value) == [none |-> FALSE, type |-> "dynatom", value |-> value]

NoMeta == [none |-> TRUE, type |-> "", value |-> <<>>]

\* the parts '%+d,%+d' % (x - charge, y - charge) for x, y in zip(s[1:], p[1:]) if x != y
DeltaPairs(s, p, charge) ==
    LET z == SelectSeq(Zip(Tail(s), Tail(p)), LAMBDA xy : xy[1] # xy[2])
    IN [k \in DOMAIN z |-> FmtSigned(z[k][1] - charge) \o <<",">> \o FmtSigned(z[k][2] - charge)]

\* lines 484-500
Charge(s, p, is_mdl) ==
    LET charge == s.v[1]
        meta == IF s.list
                THEN IF s = p
                     THEN IF Len(s.v) > 1
                          THEN Meta(<<"c", "0">> \o Join([k \in DOMAIN Tail(s.v) |-> StrInt(Tail(s.v)[k])], ","))
                          ELSE NoMeta
                     ELSE IF s.v[1] # p.v[1]
                          THEN Meta(<<"c">> \o Join(<<FmtSigned(p.v[1] - charge)>> \o DeltaPairs(s.v, p.v, charge), ","))
                          ELSE NoMeta
                ELSE IF p # s THEN Meta(<<"c">> \o FmtSigned(p.v[1] - s.v[1]))
                ELSE NoMeta
    IN [charge |-> IF is_mdl THEN ToMDL(charge) ELSE charge, meta |-> meta]

\* what a record parser gives back: a dict of charges, None, or an exception
AtomDat(s, p) == [out |-> "dict", s_charge |-> s, p_charge |-> p]

NoDat(out) == [out |-> out, s_charge |-> Scalar(0), p_charge |-> Scalar(0)]

\* lines 170-190, key 'c'; the keys 'x' and 'z' carry no charge
CgrAtomDat(value, charge) ==
    IF value = <<>> THEN NoDat("IndexError")
    ELSE IF Head(value) # "c" THEN NoDat("None")
    ELSE LET parts == Split(Tail(value), ",")
             ints == [k \in DOMAIN parts |-> ParseInt(parts[k])]
             diff == [k \in DOMAIN parts |-> ints[k].val]
         IN IF \E k \in DOMAIN ints : ~ints[k].ok THEN NoDat("ValueError")
            ELSE IF Len(diff) > 1
            THEN IF diff[1] = 0
                 THEN LET tmp == [k \in DOMAIN diff |-> charge + diff[k]]
                      IN IF Distinct(tmp) THEN AtomDat(List(tmp), List(tmp)) ELSE NoDat("None")
                 ELSE IF Len(diff) % 2 = 1
                 THEN LET odd == EveryOther(diff, 1)
                          even == EveryOther(diff, 0)
                          sl == <<charge>> \o [k \in DOMAIN odd |-> charge + odd[k]]
                          pl == [k \in DOMAIN even |-> charge + even[k]]
                      IN IF Distinct(Zip(sl, pl)) THEN AtomDat(List(sl), List(pl)) ELSE NoDat("None")
                 ELSE NoDat("None")
            ELSE IF diff[1] # 0 THEN AtomDat(Scalar(charge), Scalar(charge + diff[1]))
            ELSE NoDat("None")

\* lines 258-260 and 274-277, 293 for one atom: the charges the node gets from
\* its dynatom record, or from the atom line when there is none;
\* dict.update(None) raises TypeError
AtomCharges(meta, charge) ==
    IF meta.none THEN AtomDat(Scalar(charge), Scalar(charge))
    ELSE LET val == CgrAtomDat(meta.value, charge)
         IN IF val.out = "None" THEN NoDat("TypeError") ELSE val

MaxCharge == 4       \* largest absolute scalar charge of an input atom
MaxAlternatives == 2 \* most alternatives of a list-valued charge
MaxAltCharge == 1    \* largest absolute charge among the alternatives

InitCharge ==
    /\ IdleReaction
    /\ IdleGraph
    /\ pc = "ready"
    /\ \/ \E s, p \in (-MaxCharge)..MaxCharge : cin = [s |-> Scalar(s), p |-> Scalar(p)]
       \/ \E n \in 1..MaxAlternatives : \E s, p \in [1..n -> (-MaxAltCharge)..MaxAltCharge] :
             /\ Distinct(Zip(s, p))
             /\ cin = [s |-> List(s), p |-> List(p)]
    /\ enc = <<>>
    /\ mol = <<>>
    /\ dec = <<>>

\* CGRwrite.__charge(s, p) of a writer of the format that keeps the charge (not 'mdl')
EncodeCharge ==
    /\ pc = "ready"
    /\ enc' = Charge(cin.s, cin.p, FALSE)
    /\ pc' = "charge encoded"
    /\ UNCHANGED <<cin, mol, dec, rvars, gvars>>

\* the atom line and the dynatom record reach the reader
ReadCharge ==
    /\ pc = "charge encoded"
    /\ mol' = [charge |-> enc.charge, meta |-> enc.meta]
    /\ pc' = "charge read"
    /\ UNCHANGED <<cin, enc, dec, rvars, gvars>>

\* CGRread.__cgr_atom_dat(value, charge) within __parse_molecule
DecodeCharge ==
    /\ pc = "charge read"
    /\ dec' = AtomCharges(mol.meta, mol.charge)
    /\ pc' = "charge decoded"
    /\ UNCHANGED <<cin, enc, mol, rvars, gvars>>

NextCharge == EncodeCharge \/ ReadCharge \/ DecodeCharge

SpecCharge == InitCharge /\ [][NextCharge]_vars

\* C3: the charge record written by __charge (or its absence), read by
\* __cgr_atom_dat against the reagent charge (the first alternative of a list),
\* gives back the reagent and the product charge values.
C3_ChargeRoundTrip ==
    pc = "charge decoded" =>
        /\ dec.out = "dict"
        /\ dec.s_charge.v = cin.s.v
        /\ dec.p_charge.v = cin.p.v

(***************************************************************************)
(* CGRread._get_reaction                                                   *)
(***************************************************************************)
MaxMap == 2          \* largest map number of an input atom
MaxRoleAtoms == 3    \* most atoms in one role of an input reaction

Roles == <<"substrats", "products">>

\* the molecules of a role: one molecule, or the first atom split off as a molecule of its own
Splits(s) == IF Len(s) < 2 THEN (IF s = <<>> THEN {<<>>} ELSE {<<s>>})
             ELSE {<<s>>, <<SubSeq(s, 1, 1), SubSeq(s, 2, Len(s))>>}

RoleInputs(n) == UNION {Splits(s) : s \in [1..n -> 0..MaxMap]}

\* maps = {role: [y['map'] for x in reaction[role] for y in x['atoms']]}
RoleMaps(r, role) == Flatten(r[role])

RECURSIVE FillZeros(_, _)
\* [j or next(length) for j in s], with the iterator at nxt: the new list and the iterator after
FillZeros(s, nxt) ==
    IF s = <<>> THEN [out |-> <<>>, nxt |-> nxt]
    ELSE IF Head(s) # 0
         THEN LET r == FillZeros(Tail(s), nxt) IN [out |-> <<Head(s)>> \o r.out, nxt |-> r.nxt]
         ELSE LET r == FillZeros(Tail(s), nxt + 1) IN [out |-> <<nxt>> \o r.out, nxt |-> r.nxt]

\* length = count(max((max(maps['products'], default=0), max(maps['substrats'], default=0))) + 1)
CountStart(m) == Max2(SeqMax(m.products), SeqMax(m.substrats)) + 1

\* one pass of the loop `for i in ('substrats', 'products')` of the map assignment
AssignRole(s, nxt) == IF 0 \in Range(s) THEN FillZeros(s, nxt) ELSE [out |-> s, nxt |-> nxt]

\* len(maps[i]) != len(set(maps[i]))
HasDuplicate(s) == Len(s) # Cardinality(Range(s))

\* AssignMaps with one iterator per role instead of the shared one
AssignMapsPerRole(r) ==
    LET m0 == [substrats |-> RoleMaps(r, "substrats"), products |-> RoleMaps(r, "products")]
        c0 == CountStart(m0)
        a1 == AssignRole(m0.substrats, c0)
    IN  IF HasDuplicate(a1.out)
        THEN [maps |-> [m0 EXCEPT !.substrats = a1.out], length |-> a1.nxt, error |-> TRUE]
        ELSE LET a2 == AssignRole(m0.products, c0)
             IN [maps |-> [substrats |-> a1.out, products |-> a2.out], length |-> Max2(a1.nxt, a2.nxt),
                 error |-> HasDuplicate(a2.out)]

\* AssignMaps with the duplicate test made over both roles at once
AssignMapsJoint(r) ==
    LET m0 == [substrats |-> RoleMaps(r, "substrats"), products |-> RoleMaps(r, "products")]
        c0 == CountStart(m0)
        a1 == AssignRole(m0.substrats, c0)
        a2 == AssignRole(m0.products, a1.nxt)
    IN  [maps |-> [substrats |-> a1.out, products |-> a2.out], length |-> a2.nxt,
         error |-> HasDuplicate(a1.out \o a2.out)]

\* lines 86-97: the result of the assignment loop: maps, the iterator, and whether MapError was raised
AssignMaps(r) ==
    LET m0 == [substrats |-> RoleMaps(r, "substrats"), products |-> RoleMaps(r, "products")]
        c0 == CountStart(m0)
        a1 == AssignRole(m0.substrats, c0)
    IN  IF HasDuplicate(a1.out)
        THEN [maps |-> [m0 EXCEPT !.substrats = a1.out], length |-> a1.nxt, error |-> TRUE]
        ELSE LET a2 == AssignRole(m0.products, a1.nxt)
             IN [maps |-> [substrats |-> a1.out, products |-> a2.out], length |-> a2.nxt,
                 error |-> HasDuplicate(a2.out)]

\* Lose with the numbers used by the reactants forgotten
LoseProductsOnly(m, nxt) == SetToSortedSeq((1..(nxt - 1)) \ Range(m.products), TRUE)

\* sorted(set(range(1, next(length))).difference(maps['products']).difference(maps['substrats']), reverse=True)
Lose(m, nxt) == SetToSortedSeq(((1..(nxt - 1)) \ Range(m.products)) \ Range(m.substrats), TRUE)

\* [j if j < i else j - 1 for j in s]
ShiftDown(s, i) == [k \in DOMAIN s |-> IF s[k] < i THEN s[k] ELSE s[k] - 1]

RECURSIVE CloseGaps(_, _)
\* for i in lose: maps[k] = [j if j < i else j - 1 for j in maps[k]]
CloseGaps(s, lose) == IF lose = <<>> THEN s ELSE CloseGaps(ShiftDown(s, Head(lose)), Tail(lose))

RECURSIVE Slices(_, _, _)
\* maps[i][shift: atom_len + shift] for the molecules of one role, in order
Slices(mols, s, shift) ==
    IF mols = <<>> THEN <<>>
    ELSE <<SubSeq(s, shift + 1, shift + Len(Head(mols)))>> \o Slices(Tail(mols), s, shift + Len(Head(mols)))

\* lines 119-126: rc[i].append(g): the graph of a molecule has the nodes mapping[1..atom_len]
BuildRole(mols, s) == Slices(mols, s, 0)

InitReaction ==
    /\ IdleGraph
    /\ IdleCodec
    /\ pc = "start"
    /\ \E n, m \in 0..MaxRoleAtoms : \E s \in RoleInputs(n), p \in RoleInputs(m) :
          reaction = [substrats |-> s, products |-> p]
    /\ remap \in BOOLEAN
    /\ maps = [substrats |-> <<>>, products |-> <<>>]
    /\ length = 0
    /\ rc = [substrats |-> <<>>, products |-> <<>>]
    /\ prop = <<>>
    /\ collected = <<>>

\* _get_reaction, lines 86-97
GetReactionAssign ==
    /\ pc = "start"
    /\ LET a == AssignMaps(reaction)
       IN /\ maps' = a.maps
          /\ length' = a.length
          /\ pc' = IF a.error THEN "MapError" ELSE "assigned"
    /\ UNCHANGED <<reaction, remap, rc, prop, collected, gvars, cvars>>

\* _get_reaction, lines 102-127
GetReactionBuild ==
    /\ pc = "assigned"
    /\ LET lose == IF remap THEN Lose(maps, length) ELSE <<>>
           m == [substrats |-> CloseGaps(maps.substrats, lose),
                 products |-> CloseGaps(maps.products, lose)]
       IN /\ maps' = m
          /\ length' = IF remap THEN length + 1 ELSE length
          /\ rc' = [substrats |-> BuildRole(reaction.substrats, m.substrats),
                    products |-> BuildRole(reaction.products, m.products)]
    /\ pc' = "done"
    /\ UNCHANGED <<reaction, remap, prop, collected, gvars, cvars>>

NextReaction == GetReactionAssign \/ GetReactionBuild

SpecReaction == InitReaction /\ [][NextReaction]_vars

(***************************************************************************)
(* CGRwrite.__to_cgr, CGRread.__parsedyn, __parselist, __cgr_dat           *)
(***************************************************************************)
\* ways = [None, 0, 1, 2, 3, 4, 9]
Ways == {NoneOrder, 0, 1, 2, 3, 4, 9}

\* rep.get(x, x) with rep = {None: 0}
Rep(x) == IF x = NoneOrder THEN 0 ELSE x

\* __to_cgr with the two sides of the transition written in the wrong order
ToCgrSwapped(x, y) ==
    IF x # y THEN [bond |-> <<"8">>, cbond |-> StrInt(Rep(y)) \o <<">">> \o StrInt(Rep(x)), btype |-> "dynbond"]
    ELSE IF x = 9 THEN [bond |-> <<"8">>, cbond |-> <<"s">>, btype |-> "extrabond"]
    ELSE [bond |-> StrInt(Rep(x)), cbond |-> <<>>, btype |-> "False"]

\* lines 502-510: cgrdict[x][y] = (bond, cbond, btype)
ToCgr(x, y) ==
    IF x # y THEN [bond |-> <<"8">>, cbond |-> StrInt(Rep(x)) \o <<">">> \o StrInt(Rep(y)), btype |-> "dynbond"]
    ELSE IF x = 9 THEN [bond |-> <<"8">>, cbond |-> <<"s">>, btype |-> "extrabond"]
    ELSE [bond |-> StrInt(Rep(x)), cbond |-> <<>>, btype |-> "False"]

\* the value of a label and whether the lookup or conversion succeeded
Label(val) == [err |-> "no", val |-> val]

LabelError(err, like) == [err |-> err, val |-> like]

\* bondlabels[x]
BondLabels(x) ==
    CASE x = <<"0">> -> Label(NoneOrder) [] x = <<"1">> -> Label(1) [] x = <<"2">> -> Label(2)
      [] x = <<"3">> -> Label(3) [] x = <<"4">> -> Label(4) [] x = <<"9">> -> Label(9)
      [] x = <<"n">> -> Label(NoneOrder) [] x = <<"s">> -> Label(9)
      [] OTHER -> LabelError("KeyError", NoneOrder)

\* stereolabels[x]
StereoLabels(x) ==
    CASE x = <<"e">> -> Label("e") [] x = <<"z">> -> Label("z") [] x = <<"u">> -> Label("u")
      [] x = <<"r">> -> Label("r") [] x = <<"s">> -> Label("s") [] x = <<"r", "e">> -> Label("re")
      [] x = <<"s", "i">> -> Label("si") [] x = <<"n">> -> Label(None)
      [] OTHER -> LabelError("KeyError", None)

\* int(x) or None, int(x) given as n
IntOrNone(n) ==
    IF ~n.ok THEN LabelError("ValueError", NoneOrder)
    ELSE IF n.val = 0 THEN Label(NoneOrder) ELSE Label(n.val)

\* x != 'n' and int(x) or None
IntLabel(x) == IF x = <<"n">> THEN Label(NoneOrder) ELSE IntOrNone(ParseInt(x))

\* bondlabels[x] if name == 'bond' else stereolabels[x] if name == 'stereo' else (x != 'n' and int(x) or None)
Convert(name, x) ==
    IF name = "bond" THEN BondLabels(x) ELSE IF name = "stereo" THEN StereoLabels(x) ELSE IntLabel(x)

NoneOf(name) == IF name = "stereo" THEN None ELSE NoneOrder

\* what __parsedyn / __parselist give back: the values under the keys s_<name>
\* p_<name> and sp_<name> (None where a key is not set), None, or an exception
Parsed(sv, pv, spv) == [out |-> "dict", s |-> sv, p |-> pv, sp |-> spv]

NotParsed(out, name) ==
    [out |-> out, s |-> Scalar(NoneOf(name)), p |-> Scalar(NoneOf(name)), sp |-> Scalar(NoneOf(name))]

\* list(zip(tmp0, tmp1))
KeptPairs(kept) == [k \in DOMAIN kept |-> <<kept[k].s, kept[k].p>>]

\* lines 140-144: the two sides of a token converted, cs and cp
DynLabels(cs, cp) ==
    [err |-> IF cs.err # "no" THEN cs.err ELSE cp.err, keep |-> TRUE, s |-> cs.val, p |-> cp.val]

\* DynParts without the test s != p of line 140
DynPartsKeepEqual(name, parts) ==
    IF Len(parts) < 2 THEN [err |-> "ValueError", keep |-> FALSE, s |-> NoneOf(name), p |-> NoneOf(name)]
    ELSE DynLabels(Convert(name, parts[1]), Convert(name, parts[Len(parts)]))

\* lines 139-144 for the parts of one token: s, *_, p = x.split('>')
DynParts(name, parts) ==
    IF Len(parts) < 2 THEN [err |-> "ValueError", keep |-> FALSE, s |-> NoneOf(name), p |-> NoneOf(name)]
    ELSE IF parts[1] = parts[Len(parts)]
    THEN [err |-> "no", keep |-> FALSE, s |-> NoneOf(name), p |-> NoneOf(name)]
    ELSE DynLabels(Convert(name, parts[1]), Convert(name, parts[Len(parts)]))

\* lines 138-144 for one token x
DynToken(name, x) == DynParts(name, Split(x, ">"))

\* the first exception of a list of results
FirstError(rs) ==
    IF \E k \in DOMAIN rs : rs[k].err # "no"
    THEN rs[CHOOSE k \in DOMAIN rs : rs[k].err # "no" /\ \A l \in 1..(k - 1) : rs[l].err = "no"].err
    ELSE "no"

\* lines 146-157: the result for the kept pairs, or the exception err of the loop
DynResult(name, err, kept) ==
    IF err # "no" THEN NotParsed(err, name)
    ELSE IF Len(kept) = 1 THEN Parsed(Scalar(kept[1].s), Scalar(kept[1].p), Scalar(KeptPairs(kept)[1]))
    ELSE IF Len(kept) > 1 /\ Distinct(KeptPairs(kept))
    THEN Parsed(List([k \in DOMAIN kept |-> kept[k].s]), List([k \in DOMAIN kept |-> kept[k].p]), List(KeptPairs(kept)))
    ELSE NotParsed("None", name)

\* lines 137-144: the loop over the tokens
DynLoop(name, rs) == DynResult(name, FirstError(rs), SelectSeq(rs, LAMBDA r : r.keep))

DynTokens(name, tokens) == [k \in DOMAIN tokens |-> DynToken(name, tokens[k])]

\* lines 135-157
ParseDyn(name, value) == DynLoop(name, DynTokens(name, Split(value, ",")))

\* lines 164-168: the result for the converted labels, or the exception err
ListResult(name, err, tmp) ==
    IF err # "no" THEN NotParsed(err, name)
    ELSE IF Len(tmp) = 1
    THEN (IF tmp[1] # NoneOf(name) THEN Parsed(Scalar(tmp[1]), Scalar(tmp[1]), Scalar(tmp[1])) ELSE NotParsed("None", name))
    ELSE IF Distinct(tmp) THEN Parsed(List(tmp), List(tmp), List(tmp))
    ELSE NotParsed("None", name)

\* lines 161-162: the labels of the tokens
ListLoop(name, rs) == ListResult(name, FirstError(rs), [k \in DOMAIN rs |-> rs[k].val])

ListTokens(name, tokens) == [k \in DOMAIN tokens |-> Convert(name, tokens[k])]

\* lines 159-168
ParseList(name, value) == ListLoop(name, ListTokens(name, Split(value, ",")))

\* lines 197-221: the records with a transition or a list value
CgrDat(type, value) ==
    CASE type = "dynbond" -> ParseDyn("bond", value)
      [] type = "extrabond" -> ParseList("bond", value)
      [] type = "atomhyb" -> ParseList("hyb", value)
      [] type = "atomneighbors" -> ParseList("neighbors", value)
      [] type = "dynatomhyb" -> ParseDyn("hyb", value)
      [] type = "dynatomneighbors" -> ParseDyn("neighbors", value)

\* __cgrkeys[type]
CgrKeys(type) == IF type \in {"extrabond", "dynbond"} THEN 2 ELSE 1

(***************************************************************************)
(* CGRwrite.get_formatted_cgr, the molecule block, CGRread._get_molecule   *)
(* and __parse_molecule: atoms with element and charges, bonds with orders *)
(***************************************************************************)
\* position of a node in the node order: renum[i]
Renum(gr, i) == CHOOSE n \in DOMAIN gr.ids : gr.ids[n] = i

\* lines 347-382: the atom lines
FormattedAtoms(gr, is_mdl) ==
    [n \in DOMAIN gr.ids |->
        [map |-> gr.ids[n],
         charge |-> Charge(gr.atom[gr.ids[n]].s_charge, gr.atom[gr.ids[n]].p_charge, is_mdl).charge,
         element |-> gr.atom[gr.ids[n]].element]]

\* lines 352-354: meta['atoms'] = (n,); cgr_dat.append(meta)
AtomRecord(meta, n) ==
    IF meta.none THEN <<>> ELSE <<[type |-> meta.type, value |-> meta.value, atoms |-> <<n>>]>>

RECURSIVE AtomRecords(_, _, _)
\* lines 349-354: the dynatom records, in node order
AtomRecords(gr, is_mdl, n) ==
    IF n > Len(gr.ids) THEN <<>>
    ELSE AtomRecord(Charge(gr.atom[gr.ids[n]].s_charge, gr.atom[gr.ids[n]].p_charge, is_mdl).meta, n)
            \o AtomRecords(gr, is_mdl, n + 1)

\* lines 387-388: the record of a bond whose table entry is c
BondRecord(c, atoms) ==
    IF c.btype # "False" THEN <<[type |-> c.btype, value |-> c.cbond, atoms |-> atoms]>> ELSE <<>>

RECURSIVE BondRecords(_, _)
\* lines 385-388: the dynbond / extrabond records, in edge order
BondRecords(gr, k) ==
    IF k > Len(gr.edges) THEN <<>>
    ELSE BondRecord(ToCgr(gr.edges[k].s_bond, gr.edges[k].p_bond),
                    <<Renum(gr, gr.edges[k].a), Renum(gr, gr.edges[k].b)>>)
            \o BondRecords(gr, k + 1)

\* lines 386-391: the bond lines
FormattedBonds(gr) ==
    [k \in DOMAIN gr.edges |->
        <<Renum(gr, gr.edges[k].a), Renum(gr, gr.edges[k].b), ToCgr(gr.edges[k].s_bond, gr.edges[k].p_bond).bond>>]

\* lines 343-399: atoms, bonds and cgr_dat as they are given to the renderer
FormattedCgr(gr, is_mdl) ==
    [atoms |-> FormattedAtoms(gr, is_mdl),
     bonds |-> FormattedBonds(gr),
     cgr_dat |-> AtomRecords(gr, is_mdl, 1) \o BondRecords(gr, 1)]

\* lines 59-71: a record as _collect assembles it from the M SAL / SDT / SED lines
Collected(rec) ==
    [type |-> rec.type, value |-> rec.value, atoms |-> SetToSortedSeq(Range(rec.atoms), FALSE)]

\* line 79: i['atoms'] or i['type'] of a record that has no such key raises KeyError
Incomplete(i) == "atoms" \notin DOMAIN i \/ "type" \notin DOMAIN i

\* lines 77-83: the records with as many atoms as their type takes, or the
\* exception raised on the first look at a record without atoms or type
GetCollected(values) ==
    IF \E k \in DOMAIN values : Incomplete(values[k])
    THEN [raised |-> "KeyError", out |-> <<>>]
    ELSE [raised |-> "no", out |-> SelectSeq(values, LAMBDA i : Len(i.atoms) = CgrKeys(i.type))]

\* the molecule block parsed back: the charge code through fromMDL, the bond code as a number
ReadBlock(data) ==
    [atoms |-> [k \in DOMAIN data.atoms |->
                  [map |-> data.atoms[k].map, charge |-> FromMDL(data.atoms[k].charge),
                   element |-> data.atoms[k].element, x |-> 0, y |-> 0, z |-> 0]],
     bonds |-> [k \in DOMAIN data.bonds |->
                  <<data.bonds[k][1], data.bonds[k][2], ParseInt(data.bonds[k][3]).val, 0>>],
     CGR_DAT |-> GetCollected([k \in DOMAIN data.cgr_dat |-> Collected(data.cgr_dat[k])]).out]

\* line 130: x['map'] for x in molecule['atoms']
AtomMaps(molecule) == [k \in DOMAIN molecule.atoms |-> molecule.atoms[k].map]

\* lines 130-132: remapped
Remapped(molecule, remapflag) ==
    IF remapflag THEN [k \in DOMAIN molecule.atoms |-> k]
    ELSE FillZeros(AtomMaps(molecule), SeqMax(AtomMaps(molecule)) + 1).out

\* dict[key] = val
Put(d, key, val) == [x \in DOMAIN d \cup {key} |-> IF x = key THEN val ELSE d[x]]

\* cgr_dat_atom.setdefault(atom, {})
DictOf(acc, atom) == IF atom \in DOMAIN acc.atom THEN acc.atom[atom] ELSE <<>>

\* .update(val) with the charges of a dynatom record; sp_charge goes with s_charge
ChargeKeys(d, val) == Put(Put(d, "s_charge", val.s_charge), "p_charge", val.p_charge)

\* line 328: __marks[name][0], __marks[name][1]
SKey(name) == CASE name = "hyb" -> "s_hyb" [] name = "neighbors" -> "s_neighbors" [] name = "bond" -> "s_bond"

PKey(name) == CASE name = "hyb" -> "p_hyb" [] name = "neighbors" -> "p_neighbors" [] name = "bond" -> "p_bond"

\* a key the parser left unset (lines 149-152) is not updated
PutSome(d, key, v, name) == IF v = Scalar(NoneOf(name)) THEN d ELSE Put(d, key, v)

\* .update(val) with the marks of a hyb / neighbors record
MarkKeys(d, name, val) == PutSome(PutSome(d, SKey(name), val.s, name), PKey(name), val.p, name)

\* the mark an atom record type sets
MarkName(type) == IF type \in {"atomhyb", "dynatomhyb"} THEN "hyb" ELSE "neighbors"

\* the keys a parsed dynatom value sets, None, or the exception of the parser
Keys(d) == [out |-> "dict", d |-> d]

NoKeys(out) == [out |-> out, d |-> <<>>]

\* lines 172-190: the charges of a 'c' value as the keys to update
ChargeUpdate(val) == IF val.out = "dict" THEN Keys(ChargeKeys(<<>>, val)) ELSE NoKeys(val.out)

\* the coordinates of the model are whole numbers; float(x) of another text raises
CoordKeys(nums) ==
    IF \E k \in DOMAIN nums : ~nums[k].ok THEN NoKeys("ValueError")
    ELSE IF Len(nums) # 3 THEN NoKeys("ValueError")
    ELSE Keys([p_x |-> nums[1].val, p_y |-> nums[2].val, p_z |-> nums[3].val])

\* lines 191-193: x, y, z = (float(x) for x in value[1:].split(','))
CoordUpdate(parts) == CoordKeys([k \in DOMAIN parts |-> ParseInt(parts[k])])

\* lines 194-195: dict(dz=int(value[1:]))
DepthUpdate(n) == IF n.ok THEN Keys([dz |-> n.val]) ELSE NoKeys("ValueError")

\* lines 170-195: __cgr_atom_dat(value, charge) as the keys to update
AtomUpdate(value, charge) ==
    IF value = <<>> THEN NoKeys("IndexError")
    ELSE IF Head(value) = "c" THEN ChargeUpdate(CgrAtomDat(value, charge))
    ELSE IF Head(value) = "x" THEN CoordUpdate(Split(Tail(value), ","))
    ELSE IF Head(value) = "z" THEN DepthUpdate(ParseInt(Tail(value)))
    ELSE NoKeys("None")

\* dict.update(other)
Update(d, other) == [x \in DOMAIN d \cup DOMAIN other |-> IF x \in DOMAIN other THEN other[x] ELSE d[x]]

\* lines 259-260: cgr_dat_atom.setdefault(atom, {}).update(val); update(None) raises TypeError
MergeAtom(acc, atom, val) ==
    IF val.out = "None" THEN [acc EXCEPT !.raised = "TypeError"]
    ELSE IF val.out # "dict" THEN [acc EXCEPT !.raised = val.out]
    ELSE [acc EXCEPT !.atom = Put(acc.atom, atom, Update(DictOf(acc, atom), val.d))]

\* lines 262-269: a record of another type whose parsed value is val
MergeOther(acc, rec, val) ==
    IF val.out \notin {"dict", "None"} THEN [acc EXCEPT !.raised = val.out]
    ELSE IF val.out = "None" THEN acc
    ELSE IF CgrKeys(rec.type) = 2
    THEN [acc EXCEPT !.bond = Put(acc.bond, Pair(rec.atoms[1], rec.atoms[2]), val)]
    ELSE [acc EXCEPT !.atom = Put(acc.atom, rec.atoms[1],
                                  MarkKeys(DictOf(acc, rec.atoms[1]), MarkName(rec.type), val))]

\* lines 257-269: one pass of the loop over CGR_DAT
MergeRecord(acc, molecule, rec) ==
    IF acc.raised # "no" THEN acc
    ELSE IF rec.type = "dynatom"
    THEN MergeAtom(acc, rec.atoms[1], AtomUpdate(rec.value, molecule.atoms[rec.atoms[1]].charge))
    ELSE MergeOther(acc, rec, CgrDat(rec.type, rec.value))

RECURSIVE MergeRecords(_, _)
\* lines 255-269: cgr_dat_atom and cgr_dat_bond after the first k records, or the exception raised
MergeRecords(molecule, k) ==
    IF k = 0 THEN [raised |-> "no", atom |-> <<>>, bond |-> <<>>]
    ELSE MergeRecord(MergeRecords(molecule, k - 1), molecule, molecule.CGR_DAT[k])

\* lines 304-307: the attributes of the bond line b
EdgeAttr(dat, b) ==
    IF Pair(b[1], b[2]) \in DOMAIN dat.bond
    THEN [s_bond |-> dat.bond[Pair(b[1], b[2])].s, p_bond |-> dat.bond[Pair(b[1], b[2])].p]
    ELSE [s_bond |-> Scalar(b[3]), p_bond |-> Scalar(b[3])]

RECURSIVE ParsedEdges(_, _, _, _)
\* lines 303-307: the edges after the first k bond lines
ParsedEdges(molecule, mapping, dat, k) ==
    IF k = 0 THEN <<>>
    ELSE Put(ParsedEdges(molecule, mapping, dat, k - 1),
             Pair(mapping[molecule.bonds[k][1]], mapping[molecule.bonds[k][2]]),
             EdgeAttr(dat, molecule.bonds[k]))

\* lines 278-283: p_x, p_y, p_z of a node that has records
ProductCoord(atom_dat, l, key, axis) ==
    IF "p_x" \in DOMAIN atom_dat THEN atom_dat[key] + l[axis] ELSE l[axis]

\* the coordinate of the atom line behind a key of the node
Axis(key) == CASE key \in {"s_x", "p_x"} -> "x" [] key \in {"s_y", "p_y"} -> "y" [] key \in {"s_z", "p_z"} -> "z"

\* lines 274-296: the attributes of a node: those of its records atom_dat
\* without dz, the charge of the atom line when no record gave one, the
\* coordinates, the element unless A or *
NodeDict(atom_dat, l) ==
    [key \in (DOMAIN atom_dat \ {"dz"})
               \cup {"element", "s_charge", "p_charge", "s_x", "s_y", "s_z", "p_x", "p_y", "p_z"} |->
        IF key \in {"p_x", "p_y", "p_z"} THEN ProductCoord(atom_dat, l, key, Axis(key))
        ELSE IF key \in {"s_x", "s_y", "s_z"} THEN l[Axis(key)]
        ELSE IF key \in DOMAIN atom_dat THEN atom_dat[key]
        ELSE IF key = "element" THEN (IF l.element \in {"A", "*"} THEN None ELSE l.element)
        ELSE Scalar(l.charge)]

\* lines 272-296: the node made of the atom line l at position k
ParsedNode(dat, k, l) == NodeDict(DictOf(dat, k), l)

\* the last position mapped to the identifier i: a later add_node updates an earlier one
LastMapped(mapping, i) ==
    CHOOSE q \in DOMAIN mapping : mapping[q] = i /\ \A r \in DOMAIN mapping : mapping[r] = i => r <= q

\* the threshold .0001 of line 288 on the whole-numbered coordinates of the
\* model: for a whole number z, z < .0001 exactly when z < 1
ZThreshold == 1

\* lines 300-301: mdl_s_stereo after the atom loop
MdlSStereo(molecule) == \A k \in DOMAIN molecule.atoms : molecule.atoms[k].z = 0

\* lines 273, 288-289: mdl_p_stereo after the atom loop; only the atoms with records are looked at
MdlPStereo(molecule, dat) ==
    \A k \in DOMAIN molecule.atoms :
       k \in DOMAIN dat.atom => ~(ProductCoord(dat.atom[k], molecule.atoms[k], "p_z", "z") < ZThreshold)

\* lines 284-285: the positions whose records hold dz
DzAtoms(dat) == {k \in DOMAIN dat.atom : "dz" \in DOMAIN dat.atom[k]}

\* lines 271, 284-285: atom_dz
AtomDz(mapping, dat) ==
    [i \in {mapping[k] : k \in DzAtoms(dat)} |->
        dat.atom[CHOOSE k \in DzAtoms(dat) : mapping[k] = i /\ \A r \in DzAtoms(dat) : mapping[r] = i => r <= k].dz]

\* lines 309-311: the bond lines with stereo code 1 or 6 whose second atom is mapped to i
Wedges(molecule, mapping, i) ==
    {k \in DOMAIN molecule.bonds : molecule.bonds[k][4] \in {1, 6} /\ mapping[molecule.bonds[k][2]] = i}

\* line 310: s_mark of the last such bond line
SMark(molecule, ws) ==
    IF molecule.bonds[CHOOSE k \in ws : \A r \in ws : r <= k][4] = 1 THEN 1 ELSE -1

\* lines 312-320: the depth marks of node i
DepthMarks(molecule, ws, i, s_stereo, p_stereo, atom_dz) ==
    [key \in (IF s_stereo /\ ws # {} THEN {"s_dz"} ELSE {})
               \cup (IF p_stereo /\ (IF i \in DOMAIN atom_dz THEN atom_dz[i] # 0 ELSE ws # {})
                     THEN {"p_dz"} ELSE {}) |->
        IF key = "p_dz" /\ i \in DOMAIN atom_dz THEN atom_dz[i] ELSE SMark(molecule, ws)]

\* the nodes after the bond loop and the deferred depth marks
MarkedNode(node, molecule, mapping, i, s_stereo, p_stereo, atom_dz) ==
    Update(node, DepthMarks(molecule, Wedges(molecule, mapping, i), i, s_stereo, p_stereo, atom_dz))

\* lines 271-320: the graph built from the atom and bond lines and the merged records dat
BuildGraph(molecule, mapping, dat) ==
    IF dat.raised # "no" THEN [raised |-> dat.raised, node |-> <<>>, edge |-> <<>>]
    ELSE [raised |-> "no",
          node |-> [i \in Range(mapping) |->
                      MarkedNode(ParsedNode(dat, LastMapped(mapping, i), molecule.atoms[LastMapped(mapping, i)]),
                                 molecule, mapping, i,
                                 MdlSStereo(molecule), MdlPStereo(molecule, dat), AtomDz(mapping, dat))],
          edge |-> ParsedEdges(molecule, mapping, dat, Len(molecule.bonds))]

\* lines 251-326: the graph __parse_molecule builds, or the exception it raises
ParseMolecule(molecule, mapping) ==
    BuildGraph(molecule, mapping, MergeRecords(molecule, Len(molecule.CGR_DAT)))

MaxCodecAtoms == 2   \* most atoms of a graph given to the writer

\* the orders of a bond of the graph: absent, single, double, triple, aromatic, any
BondOrders == {NoneOrder, 1, 2, 3, 4, 9}

\* the first atom takes any charge, static or with the product one higher; the others are static
CodecAtom(k, el, s, dyn, far) ==
    IF k = 1 THEN [element |-> el, s_charge |-> Scalar(s), p_charge |-> Scalar(IF dyn THEN s + 1 ELSE s)]
    ELSE [element |-> "C", s_charge |-> Scalar(far), p_charge |-> Scalar(far)]

\* the first bond takes any pair of orders; the others are single or turn single into double
CodecEdge(ids, k, x, y, dynrest) ==
    [a |-> ids[k], b |-> ids[k + 1],
     s_bond |-> IF k = 1 THEN x ELSE 1,
     p_bond |-> IF k = 1 THEN y ELSE IF dynrest THEN 2 ELSE 1]

InitCodec ==
    /\ IdleGraph
    /\ pc = "ready"
    /\ remap \in BOOLEAN
    /\ \E n \in 1..MaxCodecAtoms : \E ids \in {[k \in 1..n |-> k], [k \in 1..n |-> n + 2 - k]} :
          \E el \in {"C", "N"} : \E s \in (-MaxCharge)..MaxCharge : \E far \in {0, MaxCharge} :
             \E dyn, dynrest, linked \in BOOLEAN : \E x, y \in BondOrders :
                /\ ~(x = NoneOrder /\ y = NoneOrder)
                /\ cin = [ids |-> ids,
                          atom |-> [i \in Range(ids) |-> CodecAtom(Renum([ids |-> ids], i), el, s, dyn, far)],
                          edges |-> IF linked THEN [k \in 1..(n - 1) |-> CodecEdge(ids, k, x, y, dynrest)]
                                    ELSE <<>>]
    /\ enc = <<>>
    /\ mol = <<>>
    /\ dec = <<>>
    /\ reaction = <<>> /\ maps = <<>> /\ length = 0 /\ rc = <<>>
    /\ prop = <<>> /\ collected = <<>>

\* CGRwrite().get_formatted_cgr(g), the writer constructed with its defaults (_format='mdl')
GetFormattedCgr ==
    /\ pc = "ready"
    /\ enc' = FormattedCgr(cin, TRUE)
    /\ pc' = "encoded"
    /\ UNCHANGED <<cin, mol, dec, rvars, gvars>>

\* the block is rendered, read back and its records collected
ReadMolecule ==
    /\ pc = "encoded"
    /\ mol' = ReadBlock(enc)
    /\ pc' = "read"
    /\ UNCHANGED <<cin, enc, dec, rvars, gvars>>

\* CGRread(remap)._get_molecule(molecule)
GetMolecule ==
    /\ pc = "read"
    /\ dec' = ParseMolecule(mol, Remapped(mol, remap))
    /\ pc' = "decoded"
    /\ UNCHANGED <<cin, enc, mol, rvars, gvars>>

NextCodec == GetFormattedCgr \/ ReadMolecule \/ GetMolecule

SpecCodec == InitCodec /\ [][NextCodec]_vars

(***************************************************************************)
(* CGRread._get_molecule on blocks with extension records of any value     *)
(***************************************************************************)
MaxRecords == 2   \* most extension records of a block

\* an atom line
AtomLine(map, element, charge, z) == [map |-> map, charge |-> charge, element |-> element, x |-> 0, y |-> 0, z |-> z]

\* a collected record
Record(type, value, atoms) == [type |-> type, value |-> value, atoms |-> atoms]

\* records of every type with values the grammar takes and values it rejects, on a block of two atoms
RecordMenu ==
    {Record("dynatom", <<"c", "+", "1">>, <<1>>),
     Record("dynatom", <<"c", "0">>, <<1>>),
     Record("dynatom", <<"c", "0", ",", "1", ",", "1">>, <<1>>),
     Record("dynatom", <<"c", "+", "1", ",", "0", ",", "+", "1">>, <<2>>),
     Record("dynatom", <<"c", "+", "1", ",", "+", "1">>, <<2>>),
     Record("dynbond", <<"1", ">", "2">>, <<1, 2>>),
     Record("dynbond", <<"1", ">", "2", ",", "1", ">", "2">>, <<1, 2>>),
     Record("extrabond", <<"1", ",", "1">>, <<1, 2>>),
     Record("atomhyb", <<"2">>, <<2>>),
     Record("atomhyb", <<"1", ",", "1">>, <<2>>),
     Record("dynatomneighbors", <<"1", ">", "2", ",", "1", ">", "2">>, <<1>>)}

InitParse ==
    /\ IdleGraph
    /\ pc = "read"
    /\ reaction = <<>> /\ maps = <<>> /\ length = 0 /\ rc = <<>> /\ prop = <<>> /\ collected = <<>>
    /\ remap \in BOOLEAN
    /\ cin = <<>>
    /\ enc = <<>>
    /\ \E charge \in {0, 1} : \E map2 \in {0, 2} : \E n \in 0..MaxRecords : \E recs \in [1..n -> RecordMenu] :
          mol = [atoms |-> <<AtomLine(1, "C", charge, 0), AtomLine(map2, "N", 0, 0)>>,
                 bonds |-> <<<<1, 2, 1, 0>>>>,
                 CGR_DAT |-> recs]
    /\ dec = <<>>

NextParse == GetMolecule

SpecParse == InitParse /\ [][NextParse]_vars

(***************************************************************************)
(* CGRread.__cgr_dat on the value of one dynamic or list record.  The      *)
(* value is the comma-joined text of its tokens; a token is a label or two *)
(* labels around '>'.                                                      *)
(***************************************************************************)
MaxTokens == 3    \* most tokens of a record value

TokenLabels == {<<"0">>, <<"1">>, <<"2">>, <<"n">>}

TokenMenu ==
    TokenLabels \cup {x \o <<">">> \o y : x \in {<<"1">>, <<"2">>}, y \in {<<"1">>, <<"2">>}}
                \cup {<<"0", ">", "1">>, <<"n", ">", "1">>, <<"1", ">", "n">>}

RecordTypes == {"dynbond", "extrabond", "atomhyb", "atomneighbors", "dynatomhyb", "dynatomneighbors"}

InitRecord ==
    /\ IdleGraph
    /\ IdleReaction
    /\ pc = "record"
    /\ \E type \in RecordTypes : \E n \in 1..MaxTokens : \E tokens \in [1..n -> TokenMenu] :
          cin = [type |-> type, tokens |-> tokens, value |-> Join(tokens, ",")]
    /\ enc = <<>>
    /\ mol = <<>>
    /\ dec = <<>>

\* val = self.__cgr_dat(type, value)
CallCgrDat ==
    /\ pc = "record"
    /\ pc' = "__cgr_dat"
    /\ dec' = CgrDat(cin.type, cin.value)
    /\ UNCHANGED <<cin, enc, mol, gvars, rvars>>

NextRecord == CallCgrDat

SpecRecord == InitRecord /\ [][NextRecord]_vars

(***************************************************************************)
(* CGRread._get_molecule on blocks with z-coordinates, wedge bonds and     *)
(* dynatom records of product coordinates (x...) and depth marks (z...)    *)
(***************************************************************************)
MaxDepthRecords == 2   \* most dynatom records of a block

\* the legacy stereo codes of a bond line: none, up, down
StereoCodes == {0, 1, 6}

DepthMenu ==
    {Record("dynatom", <<"z", "1">>, <<2>>),
     Record("dynatom", <<"z", "-", "1">>, <<2>>),
     Record("dynatom", <<"z", "0">>, <<2>>),
     Record("dynatom", <<"z", "1">>, <<1>>),
     Record("dynatom", <<"x", "0", ",", "0", ",", "1">>, <<1>>),
     Record("dynatom", <<"x", "0", ",", "0", ",", "1">>, <<2>>),
     Record("dynatom", <<"x", "0", ",", "0", ",", "-", "1">>, <<2>>),
     Record("dynatom", <<"c", "+", "1">>, <<1>>)}

InitStereo ==
    /\ IdleGraph
    /\ pc = "read"
    /\ reaction = <<>> /\ maps = <<>> /\ length = 0 /\ rc = <<>> /\ prop = <<>> /\ collected = <<>>
    /\ remap \in BOOLEAN
    /\ cin = <<>>
    /\ enc = <<>>
    /\ \E z1 \in {0, 1} : \E z2 \in {0, 1} : \E s \in StereoCodes :
       \E n \in 0..MaxDepthRecords : \E recs \in [1..n -> DepthMenu] :
          mol = [atoms |-> <<AtomLine(1, "C", 0, z1), AtomLine(2, "N", 0, z2)>>,
                 bonds |-> <<<<1, 2, 1, s>>>>,
                 CGR_DAT |-> recs]
    /\ dec = <<>>

NextStereo == GetMolecule

SpecStereo == InitStereo /\ [][NextStereo]_vars

(***************************************************************************)
(* CGRread._collect, _flush_collected, _get_collected.  __prop is a dict   *)
(* in insertion order: a sequence of <<key, record>> pairs.  A record is a *)
(* dict too: a function from the keys it has among atoms, type, value.     *)
(* _collect is given the fields it slices from the line.                   *)
(***************************************************************************)
\* the keys of __cgrkeys
CgrKeyNames ==
    {"extrabond", "dynbond", "dynatom", "atomnotlist", "atomlist", "isotope",
     "atomhyb", "atomneighbors", "dynatomhyb", "dynatomneighbors"}

\* key in self.__prop
InProp(p, key) == \E k \in DOMAIN p : p[k][1] = key

\* self.__prop[key]
PropGet(p, key) == p[CHOOSE k \in DOMAIN p : p[k][1] = key][2]

\* self.__prop[key] = rec: a new key goes last, a known key keeps its place
PropSet(p, key, rec) ==
    IF InProp(p, key) THEN [k \in DOMAIN p |-> IF p[k][1] = key THEN <<key, rec>> ELSE p[k]]
    ELSE Append(p, <<key, rec>>)

\* self.__prop.pop(key)
PropPop(p, key) == SelectSeq(p, LAMBDA e : e[1] # key)

\* self.__prop.values()
PropValues(p) == [k \in DOMAIN p |-> p[k][2]]

\* str.lower() of a field name
LowerName(name) ==
    CASE name = "DYNATOM" -> "dynatom" [] name = "DYNBOND" -> "dynbond" [] name = "Dynbond" -> "dynbond"
      [] OTHER -> name

\* str.lower() of a character
LowerChar(c) == CASE c = "C" -> "c" [] c = "X" -> "x" [] c = "Z" -> "z" [] OTHER -> c

\* line 71: line[10:].strip().replace('/', '').lower(), the field given without its padding
SedValue(text) ==
    [k \in DOMAIN SelectSeq(text, LAMBDA c : c # "/") |-> LowerChar(SelectSeq(text, LAMBDA c : c # "/")[k])]

\* sorted(key)
Sorted(s) == SetToSortedSeq(Range(s), FALSE)

\* lines 48-51: M  ALS
CollectALS(p, atom, flag, value) ==
    PropSet(p, <<"ALS", atom>>,
            [atoms |-> <<atom>>, type |-> IF flag = "F" THEN "atomlist" ELSE "atomnotlist", value |-> value])

\* lines 52-53: M  ISO; the key line[3:10] holds the entry count, not the atom
CollectISO(p, entries, atom, value) ==
    PropSet(p, <<"ISO", entries>>, [atoms |-> <<atom>>, type |-> "isotope", value |-> value])

RECURSIVE CollectSTY(_, _)
\* lines 55-58: M  STY, entries the <<sgroup, kind>> pairs of the line
CollectSTY(p, entries) ==
    IF entries = <<>> THEN p
    ELSE CollectSTY(IF Head(entries)[2] = "DAT" THEN PropSet(p, <<"sgroup", Head(entries)[1]>>, <<>>) ELSE p,
                    Tail(entries))

\* lines 59-63: M  SAL
CollectSAL(p, n, key) ==
    IF InProp(p, <<"sgroup", n>>)
    THEN PropSet(p, <<"sgroup", n>>, Put(PropGet(p, <<"sgroup", n>>), "atoms", Sorted(key)))
    ELSE p

\* lines 64-69: M  SDT
CollectSDT(p, n, name) ==
    IF ~InProp(p, <<"sgroup", n>>) THEN p
    ELSE IF LowerName(name) \notin CgrKeyNames THEN PropPop(p, <<"sgroup", n>>)
    ELSE PropSet(p, <<"sgroup", n>>, Put(PropGet(p, <<"sgroup", n>>), "type", LowerName(name)))

\* lines 70-71: M  SED
CollectSED(p, n, text) ==
    IF InProp(p, <<"sgroup", n>>)
    THEN PropSet(p, <<"sgroup", n>>, Put(PropGet(p, <<"sgroup", n>>), "value", SedValue(text)))
    ELSE p

MaxSgroup == 1   \* largest Sgroup number of a line

\* the Sgroup entries of an STY line
StyEntries == {<<n, kind>> : n \in 1..MaxSgroup, kind \in {"DAT", "SUP"}}

InitCollect ==
    /\ IdleGraph
    /\ IdleCodec
    /\ pc = "CGRread"
    /\ IdleReaction

\* _collect and _flush_collected return None
CollectFrame == collected' = <<>> /\ UNCHANGED <<reaction, remap, maps, length, rc, gvars, cvars>>

\* _collect(line), line an M  ALS line
CollectAtomList ==
    /\ \E flag \in {"F", "T"} : prop' = CollectALS(prop, 1, flag, <<"C", "N">>)
    /\ pc' = "_collect"
    /\ CollectFrame

\* _collect(line), line an M  ISO line
CollectIsotope ==
    /\ prop' = CollectISO(prop, 1, 1, <<"1">>)
    /\ pc' = "_collect"
    /\ CollectFrame

\* _collect(line), line an M  STY line of one or two entries
CollectSgroupType ==
    /\ \E e1 \in StyEntries : \E more \in BOOLEAN : \E e2 \in StyEntries :
          prop' = CollectSTY(prop, IF more THEN <<e1, e2>> ELSE <<e1>>)
    /\ pc' = "_collect"
    /\ CollectFrame

\* _collect(line), line an M  SAL line
CollectSgroupAtoms ==
    /\ \E n \in 1..MaxSgroup : \E key \in {<<1>>, <<2, 1>>} : prop' = CollectSAL(prop, n, key)
    /\ pc' = "_collect"
    /\ CollectFrame

\* _collect(line), line an M  SDT line
CollectSgroupField ==
    /\ \E n \in 1..MaxSgroup : \E name \in {"DYNATOM", "Dynbond", "mrv_implicit_h"} :
          prop' = CollectSDT(prop, n, name)
    /\ pc' = "_collect"
    /\ CollectFrame

\* _collect(line), line an M  SED line
CollectSgroupData ==
    /\ \E n \in 1..MaxSgroup : prop' = CollectSED(prop, n, <<"C", "+", "1", "/">>)
    /\ pc' = "_collect"
    /\ CollectFrame

\* lines 73-74
FlushCollected ==
    /\ prop' = <<>>
    /\ pc' = "_flush_collected"
    /\ CollectFrame

\* lines 76-83; the exception leaves before self.__prop.clear()
CallGetCollected ==
    /\ collected' = GetCollected(PropValues(prop))
    /\ prop' = IF GetCollected(PropValues(prop)).raised = "no" THEN <<>> ELSE prop
    /\ pc' = "_get_collected"
    /\ UNCHANGED <<reaction, remap, maps, length, rc, gvars, cvars>>

NextCollect ==
    \/ CollectAtomList \/ CollectIsotope \/ CollectSgroupType \/ CollectSgroupAtoms
    \/ CollectSgroupField \/ CollectSgroupData \/ FlushCollected \/ CallGetCollected

SpecCollect == InitCollect /\ [][NextCollect]_vars

(***************************************************************************)
(* CGRContainer: the graph                                                 *)
(*                                                                         *)
(* g.ids is the node order (insertion order of the node table), g.atom the *)
(* node table, g.adj[n] the neighbours of n in insertion order, g.bond the *)
(* edge attributes by unordered pair.  A bond order is an integer; the     *)
(* absent order (Python None) is NoneOrder.  A stereo mark is a string,    *)
(* None when there is no mark.                                             *)
(***************************************************************************)
\* truth value of a bond order: `if bond.order`, `y.get('s_bond')`
Truthy(order) == order # NoneOrder /\ order # 0

Atom(element, charge, p_charge, stereo, p_stereo) ==
    [element |-> element, charge |-> charge, p_charge |-> p_charge,
     stereo |-> stereo, p_stereo |-> p_stereo,
     neighbors |-> 0, hybridization |-> 0, p_neighbors |-> 0, p_hybridization |-> 0]

Bond(order, p_order, stereo, p_stereo) ==
    [order |-> order, p_order |-> p_order, stereo |-> stereo, p_stereo |-> p_stereo]

\* the graph with atoms a[1..n] added in order and then the bonds b in sorted order
MkGraph(a, b) ==
    [ids |-> [k \in DOMAIN a |-> k],
     atom |-> a,
     adj |-> [n \in DOMAIN a |-> SetToSortedSeq({m \in DOMAIN a : Pair(n, m) \in DOMAIN b /\ m # n}, FALSE)],
     bond |-> b]

Nodes(gr) == Range(gr.ids)

Edges(gr) == DOMAIN gr.bond

\* DynAtom.reagent / DynAtom.product: the one-sided view of the core attributes of an atom
AtomReagent(a) == [element |-> a.element, charge |-> a.charge]

AtomProduct(a) == [element |-> a.element, charge |-> a.p_charge]

\* DynBond.reagent / DynBond.product: the one-sided view of a bond
BondReagent(b) == [order |-> b.order]

BondProduct(b) == [order |-> b.p_order]

(***************************************************************************)
(* CGRContainer.get_center_atoms, CGRContainer.decompose                   *)
(***************************************************************************)
\* get_center_atoms with the stereo test of the bonds applied whatever the flag
CenterAtomsStereoAlways(gr, stereo) ==
    {n \in Nodes(gr) : AtomReagent(gr.atom[n]) # AtomProduct(gr.atom[n])
                        \/ (stereo /\ gr.atom[n].stereo # gr.atom[n].p_stereo)}
    \cup UNION {e \in Edges(gr) : BondReagent(gr.bond[e]) # BondProduct(gr.bond[e])
                                   \/ gr.bond[e].stereo # gr.bond[e].p_stereo}

\* lines 38-47
CenterAtoms(gr, stereo) ==
    {n \in Nodes(gr) : AtomReagent(gr.atom[n]) # AtomProduct(gr.atom[n])
                        \/ (stereo /\ gr.atom[n].stereo # gr.atom[n].p_stereo)}
    \cup UNION {e \in Edges(gr) : BondReagent(gr.bond[e]) # BondProduct(gr.bond[e])
                                   \/ (stereo /\ gr.bond[e].stereo # gr.bond[e].p_stereo)}

\* decompose with the product edges selected by the reagent order
DecomposedReagentOrder(gr) ==
    [reagent |-> [atom |-> [n \in Nodes(gr) |-> AtomReagent(gr.atom[n])],
                  bond |-> [e \in {x \in Edges(gr) : Truthy(gr.bond[x].order)} |-> BondReagent(gr.bond[e])]],
     product |-> [atom |-> [n \in Nodes(gr) |-> AtomProduct(gr.atom[n])],
                  bond |-> [e \in {x \in Edges(gr) : Truthy(gr.bond[x].order)} |-> BondProduct(gr.bond[e])]]]

\* lines 55-63: the DynamicContainer of the two MoleculeContainers
Decomposed(gr) ==
    [reagent |-> [atom |-> [n \in Nodes(gr) |-> AtomReagent(gr.atom[n])],
                  bond |-> [e \in {x \in Edges(gr) : Truthy(gr.bond[x].order)} |-> BondReagent(gr.bond[e])]],
     product |-> [atom |-> [n \in Nodes(gr) |-> AtomProduct(gr.atom[n])],
                  bond |-> [e \in {x \in Edges(gr) : Truthy(gr.bond[x].p_order)} |-> BondProduct(gr.bond[e])]]]

MaxViewAtoms == 2    \* most atoms of a graph given to decompose / get_center_atoms

ViewAtomStates ==
    {Atom("C", c[1], c[2], st[1], st[2]) : c \in {<<0, 0>>, <<0, 1>>}, st \in {<<None, None>>, <<None, "s">>}}

ViewBondStates ==
    {Bond(o, p, st[1], st[2]) : o \in {NoneOrder, 0, 1, 2}, p \in {NoneOrder, 0, 1, 2},
                                st \in {<<None, None>>, <<None, "e">>}}

\* chains 1 - 2 - ... - n with any of the links missing
ChainPairs(n) == {Pair(k, k + 1) : k \in 1..(n - 1)}

InitViews ==
    /\ IdleReaction
    /\ IdleCodec
    /\ pc = "ready"
    /\ \E n \in 0..MaxViewAtoms : \E a \in [1..n -> ViewAtomStates] :
          \E E \in SUBSET ChainPairs(n) : \E b \in [E -> ViewBondStates] : g = MkGraph(a, b)
    /\ g0 = g
    /\ cache \in BOOLEAN
    /\ ret = <<>>
    /\ rq = <<>>

\* CGRContainer.get_center_atoms(stereo)
GetCenterAtoms ==
    /\ pc = "ready"
    /\ \E stereo \in BOOLEAN :
          /\ ret' = [stereo |-> stereo, atoms |-> CenterAtoms(g, stereo)]
          /\ pc' = "get_center_atoms"
    /\ UNCHANGED <<g, g0, cache, rq, rvars, cvars>>

\* CGRContainer.decompose()
Decompose ==
    /\ pc = "ready"
    /\ ret' = Decomposed(g)
    /\ pc' = "decompose"
    /\ UNCHANGED <<g, g0, cache, rq, rvars, cvars>>

NextViews == GetCenterAtoms \/ Decompose

SpecViews == InitViews /\ [][NextViews]_vars

(***************************************************************************)
(* CGRContainer.implicify_hydrogens, explicify_hydrogens, atom_explicit_h  *)
(***************************************************************************)
RECURSIVE SeqSum(_)
SeqSum(s) == IF s = <<>> THEN 0 ELSE Head(s) + SeqSum(Tail(s))

RECURSIVE Dedup(_)
\* the keys of a dict in insertion order: first occurrences
Dedup(s) == IF s = <<>> THEN <<>>
            ELSE <<Head(s)>> \o Dedup(SelectSeq(Tail(s), LAMBDA x : x # Head(s)))

\* valences of the elements of the model (periodic table)
Valence(element) == CASE element = "H" -> 1 [] element = "C" -> 4 [] OTHER -> 0

\* Atom.get_implicit_h(bonds): hydrogens missing to the valence of the element
GetImplicitH(atomview, bonds) ==
    LET free == Valence(atomview.element) - SeqSum(bonds) IN IF free > 0 THEN free ELSE 0

\* Graph.remove_node(x): the node, its adjacency and its edges go
RemoveNode(gr, x) ==
    [ids |-> SelectSeq(gr.ids, LAMBDA n : n # x),
     atom |-> [n \in DOMAIN gr.atom \ {x} |-> gr.atom[n]],
     adj |-> [n \in DOMAIN gr.adj \ {x} |-> SelectSeq(gr.adj[n], LAMBDA m : m # x)],
     bond |-> [e \in {d \in DOMAIN gr.bond : x \notin d} |-> gr.bond[e]]]

RECURSIVE HydrogenScan(_, _)
\* lines 135-142: the visits (m, n) of the neighbours m of every hydrogen n, in order
HydrogenScan(gr, k) ==
    IF k > Len(gr.ids) THEN <<>>
    ELSE LET n == gr.ids[k]
         IN (IF gr.atom[n].element = "H"
             THEN [j \in DOMAIN gr.adj[n] |-> <<gr.adj[n][j], n>>]
             ELSE <<>>) \o HydrogenScan(gr, k + 1)

\* explicit: the non-hydrogen atoms with a hydrogen neighbour, in insertion order
ExplicitKeys(gr) ==
    Dedup([j \in DOMAIN SelectSeq(HydrogenScan(gr, 1), LAMBDA v : gr.atom[v[1]].element # "H")
            |-> SelectSeq(HydrogenScan(gr, 1), LAMBDA v : gr.atom[v[1]].element # "H")[j][1]])

\* explicit[m]: the hydrogens appended for m
ExplicitOf(gr, m) ==
    LET vs == SelectSeq(HydrogenScan(gr, 1), LAMBDA v : v[1] = m) IN [j \in DOMAIN vs |-> vs[j][2]]

\* hydrogens after the first loop: the hydrogens bonded to a hydrogen
BondedHydrogens(gr) ==
    UNION {{v[1], v[2]} : v \in {w \in Range(HydrogenScan(gr, 1)) : gr.atom[w[1]].element = "H"}}

\* lines 145-157: the hydrogens h of atom n are kept
KeepsHydrogens(gr, n, h) ==
    LET others == SelectSeq(gr.adj[n], LAMBDA x : x \notin Range(h))
        s_sel == SelectSeq(others, LAMBDA x : Truthy(gr.bond[Pair(n, x)].order))
        p_sel == SelectSeq(others, LAMBDA x : Truthy(gr.bond[Pair(n, x)].p_order))
        s_bonds == [j \in DOMAIN s_sel |-> gr.bond[Pair(n, s_sel[j])].order]
        p_bonds == [j \in DOMAIN p_sel |-> gr.bond[Pair(n, p_sel[j])].p_order]
        s_implicit == GetImplicitH(AtomReagent(gr.atom[n]), s_bonds)
        p_implicit == GetImplicitH(AtomProduct(gr.atom[n]), p_bonds)
    IN \/ (s_implicit = 0 /\ \E x \in Range(h) : Truthy(gr.bond[Pair(n, x)].order))
       \/ (p_implicit = 0 /\ \E x \in Range(h) : Truthy(gr.bond[Pair(n, x)].p_order))

\* hydrogens when the second loop is over
RetainedHydrogens(gr) ==
    BondedHydrogens(gr)
      \cup UNION {Range(ExplicitOf(gr, n)) :
                    n \in {m \in Range(ExplicitKeys(gr)) : KeepsHydrogens(gr, m, ExplicitOf(gr, m))}}

RECURSIVE ForRemove(_, _)
\* for_remove when the second loop is over
ForRemove(gr, keys) ==
    IF keys = <<>> THEN <<>>
    ELSE (IF KeepsHydrogens(gr, Head(keys), ExplicitOf(gr, Head(keys)))
          THEN <<>> ELSE ExplicitOf(gr, Head(keys))) \o ForRemove(gr, Tail(keys))

RECURSIVE RemoveLoop(_, _, _, _)
\* lines 162-165; remove_node raises NetworkXError for a node that is no longer in the graph
RemoveLoop(gr, todo, hydrogens, c) ==
    IF todo = <<>> THEN [g |-> gr, c |-> c, raised |-> "no"]
    ELSE IF Head(todo) \in hydrogens THEN RemoveLoop(gr, Tail(todo), hydrogens, c)
    ELSE IF Head(todo) \notin Nodes(gr) THEN [g |-> gr, c |-> c, raised |-> "NetworkXError"]
    ELSE RemoveLoop(RemoveNode(gr, Head(todo)), Tail(todo), hydrogens, c + 1)

\* lines 131-168
Implicified(gr) == RemoveLoop(gr, ForRemove(gr, ExplicitKeys(gr)), RetainedHydrogens(gr), 0)

\* lines 196-199: the hydrogen neighbours of an atom bonded on the reagent / product side
AtomExplicitH(gr, n) ==
    [reagent |-> Cardinality({x \in Range(gr.adj[n]) :
                                Truthy(gr.bond[Pair(n, x)].order) /\ gr.atom[x].element = "H"}),
     product |-> Cardinality({x \in Range(gr.adj[n]) :
                                Truthy(gr.bond[Pair(n, x)].p_order) /\ gr.atom[x].element = "H"})]

\* lines 190-194: `atom` is rebound to the node record (line 191) and the adjacency
\* is then indexed by that record (lines 192-193), which is no key of it: the
\* call raises for every atom
AtomImplicitHRaises(gr, n) == n \in Nodes(gr)

\* lines 176-182: atom_implicit_h is called for the first non-hydrogen atom
ExplicifyRaises(gr) == \E n \in Nodes(gr) : gr.atom[n].element # "H" /\ AtomImplicitHRaises(gr, n)

MaxHAtoms == 3       \* most atoms of a graph given to the hydrogen algorithms

AllPairs(n) == {Pair(k, l) : k, l \in 1..n} \ {{k} : k \in 1..n}

HBondStates == {Bond(1, 1, None, None), Bond(2, 2, None, None)}

InitHydrogens ==
    /\ IdleReaction
    /\ IdleCodec
    /\ pc = "ready"
    /\ \E n \in 0..MaxHAtoms : \E el \in [1..n -> {"H", "C"}] :
          \E E \in SUBSET AllPairs(n) : \E b \in [E -> HBondStates] :
             g = MkGraph([k \in 1..n |-> Atom(el[k], 0, 0, None, None)], b)
    /\ g0 = g
    /\ cache \in BOOLEAN
    /\ ret = <<>>
    /\ rq = <<>>

\* CGRContainer.implicify_hydrogens()
ImplicifyHydrogens ==
    /\ pc = "ready"
    /\ LET r == Implicified(g)
       IN /\ g' = r.g
          /\ cache' = IF r.raised = "no" THEN FALSE ELSE cache
          /\ ret' = [value |-> r.c, raised |-> r.raised]
    /\ pc' = "implicify_hydrogens"
    /\ UNCHANGED <<g0, rq, rvars, cvars>>

\* CGRContainer.explicify_hydrogens()
ExplicifyHydrogens ==
    /\ \/ pc = "ready"
       \/ pc = "implicify_hydrogens" /\ ret.raised = "no"
    /\ IF ExplicifyRaises(g)
       THEN /\ ret' = [value |-> 0, raised |-> "TypeError"]
            /\ UNCHANGED cache
       ELSE /\ ret' = [value |-> 0, raised |-> "no"]
            /\ cache' = FALSE
    /\ pc' = IF pc = "ready" THEN "explicify_hydrogens" ELSE "implicify_hydrogens;explicify_hydrogens"
    /\ UNCHANGED <<g, g0, rq, rvars, cvars>>

NextHydrogens == ImplicifyHydrogens \/ ExplicifyHydrogens

SpecHydrogens == InitHydrogens /\ [][NextHydrogens]_vars

\* C9: for a graph without dynamic attributes, implicify_hydrogens followed by
\* explicify_hydrogens leaves every non-hydrogen atom with the explicit hydrogen
\* count it had before the two calls.
C9_HydrogenRoundTrip ==
    pc = "implicify_hydrogens;explicify_hydrogens" =>
        \A n \in Nodes(g0) : g0.atom[n].element # "H" =>
            /\ n \in Nodes(g)
            /\ AtomExplicitH(g, n) = AtomExplicitH(g0, n)

(***************************************************************************)
(* CGRContainer.reset_query_marks                                          *)
(***************************************************************************)
\* g._node[j] != 'H': the neighbour is no hydrogen
IsNotHydrogen(atom) == atom.element # "H"

\* lines 92-101 with the second double bond leaving the class at sp2
HybridizationStepNoSp(hybridization, order) ==
    IF hybridization \in {3, 4} THEN hybridization
    ELSE IF order = 4 THEN 4
    ELSE IF order = 3 THEN 3
    ELSE IF order = 2 THEN 2
    ELSE hybridization

\* lines 92-101: hyb 1- sp3; 2- sp2; 3- sp1; 4- aromatic
HybridizationStep(hybridization, order) ==
    IF hybridization \in {3, 4} THEN hybridization
    ELSE IF order = 4 THEN 4
    ELSE IF order = 3 THEN 3
    ELSE IF order = 2 THEN (IF hybridization = 2 THEN 3 ELSE 2)
    ELSE hybridization

\* lines 106-115
PHybridizationStep(p_hybridization, order) ==
    IF p_hybridization \in {3, 4} THEN p_hybridization
    ELSE IF order = 4 THEN 4
    ELSE IF order = 3 THEN 3
    ELSE IF order = 2 THEN (IF p_hybridization = 2 THEN 3 ELSE 2)
    ELSE p_hybridization

\* lines 80-83: the locals at the start of an atom
RqAtomStart(copy, w, k) ==
    [copy |-> copy, w |-> w, k |-> k, j |-> 1,
     neighbors |-> 0, hybridization |-> 1, p_neighbors |-> 0, p_hybridization |-> 1]

\* the graph the call works on: g = self.copy() if copy else self
RqGraph == IF rq.copy THEN rq.w ELSE g

RqAtom == RqGraph.ids[rq.k]

RqNeighbour == RqGraph.adj[RqAtom][rq.j]

RqBond == RqGraph.bond[Pair(RqAtom, RqNeighbour)]

MaxDegree == 3       \* most bonds of the atom given to reset_query_marks

MarkOrders == {NoneOrder, 1, 2, 3, 4}

NextOrder(o) == CASE o = NoneOrder -> 1 [] o = 4 -> NoneOrder [] OTHER -> o + 1

\* a bond is static, or its product order is the order after its reagent order
MarkBondStates == {Bond(o, o, None, None) : o \in MarkOrders}
                    \cup {Bond(o, NextOrder(o), None, None) : o \in MarkOrders}

\* an atom 1 with d neighbours 2 .. d + 1, the first of them hydrogen or not
StarPairs(d) == {Pair(1, k) : k \in 2..(d + 1)}

InitMarks ==
    /\ IdleReaction
    /\ IdleCodec
    /\ pc = "ready"
    /\ \E d \in 0..MaxDegree : \E first \in {"C", "H"} : \E b \in [StarPairs(d) -> MarkBondStates] :
          g = MkGraph([k \in 1..(d + 1) |-> Atom(IF k = 2 THEN first ELSE "C", 0, 0, None, None)], b)
    /\ g0 = g
    /\ cache \in BOOLEAN
    /\ ret = <<>>
    /\ rq = <<>>

\* reset_query_marks(copy), line 78
ResetQueryMarksBegin ==
    /\ pc = "ready"
    /\ \E copy \in BOOLEAN : rq' = RqAtomStart(copy, IF copy THEN g ELSE <<>>, 1)
    /\ pc' = "reset_query_marks"
    /\ UNCHANGED <<g, g0, cache, ret, rvars, cvars>>

\* lines 85-115: one bond of the adjacency of the current atom
ResetQueryMarksBond ==
    /\ pc = "reset_query_marks"
    /\ rq.k <= Len(RqGraph.ids)
    /\ rq.j <= Len(RqGraph.adj[RqAtom])
    /\ LET isnth == IsNotHydrogen(RqGraph.atom[RqNeighbour])
           order == RqBond.order
           p_order == RqBond.p_order
       IN rq' = [rq EXCEPT
                   !.j = @ + 1,
                   !.neighbors = IF Truthy(order) /\ isnth THEN @ + 1 ELSE @,
                   !.hybridization = IF Truthy(order) THEN HybridizationStep(@, order) ELSE @,
                   !.p_neighbors = IF Truthy(p_order) /\ isnth THEN @ + 1 ELSE @,
                   !.p_hybridization = IF Truthy(p_order) THEN PHybridizationStep(@, p_order) ELSE @]
    /\ UNCHANGED <<pc, g, g0, cache, ret, rvars, cvars>>

\* lines 117-120: the marks of the current atom are set, the next atom starts
ResetQueryMarksAtom ==
    /\ pc = "reset_query_marks"
    /\ rq.k <= Len(RqGraph.ids)
    /\ rq.j > Len(RqGraph.adj[RqAtom])
    /\ LET marked == [RqGraph EXCEPT !.atom[RqAtom] =
                        [@ EXCEPT !.neighbors = rq.neighbors, !.hybridization = rq.hybridization,
                                  !.p_neighbors = rq.p_neighbors, !.p_hybridization = rq.p_hybridization]]
       IN IF rq.copy
          THEN /\ rq' = RqAtomStart(TRUE, marked, rq.k + 1)
               /\ UNCHANGED g
          ELSE /\ rq' = RqAtomStart(FALSE, <<>>, rq.k + 1)
               /\ g' = marked
    /\ UNCHANGED <<pc, g0, cache, ret, rvars, cvars>>

\* lines 121-123: return g for a copy, flush_cache otherwise
ResetQueryMarksReturn ==
    /\ pc = "reset_query_marks"
    /\ rq.k > Len(RqGraph.ids)
    /\ IF rq.copy
       THEN /\ ret' = [copy |-> TRUE, graph |-> rq.w]
            /\ UNCHANGED cache
       ELSE /\ ret' = [copy |-> FALSE, graph |-> <<>>]
            /\ cache' = FALSE
    /\ pc' = "reset_query_marks returned"
    /\ UNCHANGED <<g, g0, rq, rvars, cvars>>

NextMarks ==
    ResetQueryMarksBegin \/ ResetQueryMarksBond \/ ResetQueryMarksAtom \/ ResetQueryMarksReturn

SpecMarks == InitMarks /\ [][NextMarks]_vars

(***************************************************************************)
(* Sequences of reset_query_marks, implicify_hydrogens and                 *)
(* explicify_hydrogens on one container.  g0 is the graph the cached       *)
(* results, when held, were derived from.                                  *)
(***************************************************************************)
MaxMutateAtoms == 3  \* most atoms of a container given to a sequence of calls

InitMutate ==
    /\ IdleReaction
    /\ IdleCodec
    /\ pc = "ready"
    /\ \E n \in 0..MaxMutateAtoms : \E el \in [1..n -> {"H", "C"}] :
          \E E \in SUBSET ChainPairs(n) : \E b \in [E -> HBondStates] :
             g = MkGraph([k \in 1..n |-> Atom(el[k], 0, 0, None, None)], b)
    /\ g0 = g
    /\ cache \in BOOLEAN
    /\ ret = <<>>
    /\ rq = <<>>

\* the positions at which a call has returned or raised
Returned ==
    {"reset_query_marks returned", "implicify_hydrogens", "explicify_hydrogens",
     "implicify_hydrogens;explicify_hydrogens"}

\* the caller goes on to its next call on the container
NextCall ==
    /\ pc \in Returned
    /\ pc' = "ready"
    /\ UNCHANGED <<gvars, rvars, cvars>>

NextMutate ==
    \/ ImplicifyHydrogens \/ ExplicifyHydrogens
    \/ ResetQueryMarksBegin \/ ResetQueryMarksBond \/ ResetQueryMarksAtom \/ ResetQueryMarksReturn
    \/ NextCall

SpecMutate == InitMutate /\ [][NextMutate]_vars

(***************************************************************************)
(* Properties of decompose and get_center_atoms                            *)
(***************************************************************************)
OrderPresent(order) == order \notin {NoneOrder, 0}

\* C7: decompose returns two graphs on the atoms of G; an edge of G is in the
\* reagent graph iff its reagent order is present and nonzero, in the product
\* graph iff its product order is; G is unchanged.
C7_DecomposeComplete ==
    pc = "decompose" =>
        /\ DOMAIN ret.reagent.atom = Nodes(g0)
        /\ DOMAIN ret.product.atom = Nodes(g0)
        /\ DOMAIN ret.reagent.bond \subseteq Edges(g0)
        /\ DOMAIN ret.product.bond \subseteq Edges(g0)
        /\ \A e \in Edges(g0) :
              /\ (e \in DOMAIN ret.reagent.bond) <=> OrderPresent(g0.bond[e].order)
              /\ (e \in DOMAIN ret.product.bond) <=> OrderPresent(g0.bond[e].p_order)
        /\ g = g0

C7_Witness ==
    /\ pc = "decompose"
    /\ \E e \in Edges(g0) : /\ g0.bond[e].order = 1 /\ g0.bond[e].p_order = 0
                            /\ e \in DOMAIN ret.reagent.bond /\ e \notin DOMAIN ret.product.bond

AtomChanges(a, stereo) == a.charge # a.p_charge \/ (stereo /\ a.stereo # a.p_stereo)

BondChanges(b, stereo) == b.order # b.p_order \/ (stereo /\ b.stereo # b.p_stereo)

\* C8: get_center_atoms(stereo) returns exactly the atoms whose two states differ
\* and the endpoints of the bonds whose two states differ, a difference of the
\* stereo marks counting iff stereo is requested; nothing when nothing differs.
C8_CenterAtoms ==
    pc = "get_center_atoms" =>
        /\ \A n \in Nodes(g) :
              (n \in ret.atoms) <=>
                  \/ AtomChanges(g.atom[n], ret.stereo)
                  \/ \E e \in Edges(g) : n \in e /\ BondChanges(g.bond[e], ret.stereo)
        /\ ret.atoms \subseteq Nodes(g)
        /\ ((\A n \in Nodes(g) : ~AtomChanges(g.atom[n], ret.stereo))
              /\ (\A e \in Edges(g) : ~BondChanges(g.bond[e], ret.stereo))) => ret.atoms = {}

C8_Witness ==
    /\ pc = "get_center_atoms" /\ ~ret.stereo
    /\ \E e \in Edges(g) : g.bond[e].stereo # g.bond[e].p_stereo
    /\ \E n \in Nodes(g) : g.atom[n].stereo # g.atom[n].p_stereo
    /\ ret.atoms = {}

(***************************************************************************)
(* Properties of reset_query_marks                                         *)
(***************************************************************************)
\* the graph that carries the marks when the call has returned
Marked == IF ret.copy THEN ret.graph ELSE g

IncidentOrders(gr, n) == [j \in DOMAIN gr.adj[n] |-> gr.bond[Pair(n, gr.adj[n][j])].order]

IncidentPOrders(gr, n) == [j \in DOMAIN gr.adj[n] |-> gr.bond[Pair(n, gr.adj[n][j])].p_order]

\* the scan of one bond: a step of the call that stays at the same atom
ScansBond == pc = "reset_query_marks" /\ pc' = "reset_query_marks" /\ rq'.k = rq.k

\* C10: the hybridization class of an atom starts at sp3 (1) on both sides and
\* never decreases while its bonds are scanned; the first double bond gives
\* sp2 (2), the second sp (3); a class of sp (3) or aromatic (4) is final; so
\* incident orders [double, double] end as sp.
C10_HybridizationMonotone ==
    /\ []((pc = "reset_query_marks" /\ rq.j = 1) => (rq.hybridization = 1 /\ rq.p_hybridization = 1))
    /\ [][ScansBond =>
            /\ rq'.hybridization >= rq.hybridization
            /\ rq'.p_hybridization >= rq.p_hybridization
            /\ rq.hybridization \in {3, 4} => rq'.hybridization = rq.hybridization
            /\ rq.p_hybridization \in {3, 4} => rq'.p_hybridization = rq.p_hybridization
            /\ (RqBond.order = 2 /\ rq.hybridization = 1) => rq'.hybridization = 2
            /\ (RqBond.order = 2 /\ rq.hybridization = 2) => rq'.hybridization = 3
            /\ (RqBond.p_order = 2 /\ rq.p_hybridization = 1) => rq'.p_hybridization = 2
            /\ (RqBond.p_order = 2 /\ rq.p_hybridization = 2) => rq'.p_hybridization = 3]_vars
    /\ [](pc = "reset_query_marks returned" =>
            \A n \in Nodes(Marked) :
               /\ IncidentOrders(Marked, n) = <<2, 2>> => Marked.atom[n].hybridization = 3
               /\ IncidentPOrders(Marked, n) = <<2, 2>> => Marked.atom[n].p_hybridization = 3)

C10_Witness ==
    /\ pc = "reset_query_marks returned"
    /\ IncidentOrders(Marked, 1) = <<2, 2, 4>>
    /\ Marked.atom[1].hybridization = 3

(***************************************************************************)
(* Properties of _get_reaction                                             *)
(***************************************************************************)
InMaps(role) == RoleMaps(reaction, role)

EmptyMaps == [substrats |-> <<>>, products |-> <<>>]

\* number of zero map numbers among the first k atoms of a list
ZerosUpTo(s, k) == Cardinality({q \in 1..k : s[q] = 0})

\* the numbering the unmapped atoms are to get: one running number over the
\* reactants and then the products, starting above the largest map number
FreshNumber(role, k) ==
    Max2(SeqMax(InMaps("substrats")), SeqMax(InMaps("products")))
      + (IF role = "products" THEN ZerosUpTo(InMaps("substrats"), Len(InMaps("substrats"))) ELSE 0)
      + ZerosUpTo(InMaps(role), k)

ExpectedMaps(role) ==
    [k \in DOMAIN InMaps(role) |-> IF InMaps(role)[k] # 0 THEN InMaps(role)[k] ELSE FreshNumber(role, k)]

NodeIds(role) == Flatten(rc[role])

IsExample == InMaps("substrats") = <<1, 2, 0>> /\ InMaps("products") = <<0, 1, 2>>

\* C4 (as stated): for reactants {1,2,0} and products {0,1,2} the zero entry of the
\* reactants is assigned 3 and the zero entry of the products is assigned 3.
C4_AsStated ==
    (pc = "assigned" /\ IsExample) => (maps.substrats[3] = 3 /\ maps.products[1] = 3)

\* C4 (amended): the unmapped atoms are numbered consecutively from one counter
\* that starts above the largest map number of the reaction and runs over the
\* reactants first and the products after them; mapped atoms keep their number.
\* Without remap these are the node identifiers of the container.
C4_SequentialFreshMaps ==
    /\ pc = "assigned" => \A role \in Range(Roles) : maps[role] = ExpectedMaps(role)
    /\ (pc = "done" /\ ~remap) => \A role \in Range(Roles) : NodeIds(role) = ExpectedMaps(role)

C4_Witness ==
    /\ pc = "assigned" /\ IsExample
    /\ maps.substrats = <<1, 2, 3>> /\ maps.products = <<4, 1, 2>>

\* a nonzero map number carried by two atoms of the role
DuplicateIn(role) ==
    \E k, l \in DOMAIN InMaps(role) : k # l /\ InMaps(role)[k] = InMaps(role)[l] /\ InMaps(role)[k] # 0

\* C5: _get_reaction raises MapError, and builds no container, exactly when a map
\* number occurs twice among the reactants or twice among the products; a number
\* occurring once in each role is accepted.
C5_DuplicateMapIsError ==
    /\ pc # "start" => ((pc = "MapError") <=> (DuplicateIn("substrats") \/ DuplicateIn("products")))
    /\ pc = "MapError" => rc = EmptyMaps

C5_Witness ==
    pc = "MapError" /\ InMaps("substrats") = <<1, 1>> /\ InMaps("products") = <<1>>

BothRoles(f(_)) == f("substrats") \o f("products")

DecodedId(n) == IF remap THEN n ELSE cin.ids[n]

\* reagent value = product value on every atom and bond
StaticGraph(gr) ==
    /\ \A i \in Range(gr.ids) : gr.atom[i].s_charge = gr.atom[i].p_charge
    /\ \A k \in DOMAIN gr.edges : gr.edges[k].s_bond = gr.edges[k].p_bond

SameAtoms ==
    /\ DOMAIN dec.node = Range(cin.ids)
    /\ \A i \in Range(cin.ids) :
          /\ dec.node[i].element = cin.atom[i].element
          /\ dec.node[i].s_charge = cin.atom[i].s_charge
          /\ dec.node[i].p_charge = cin.atom[i].p_charge

SameBonds ==
    /\ DOMAIN dec.edge = {Pair(cin.edges[k].a, cin.edges[k].b) : k \in DOMAIN cin.edges}
    /\ \A k \in DOMAIN cin.edges :
          /\ dec.edge[Pair(cin.edges[k].a, cin.edges[k].b)].s_bond = Scalar(cin.edges[k].s_bond)
          /\ dec.edge[Pair(cin.edges[k].a, cin.edges[k].b)].p_bond = Scalar(cin.edges[k].p_bond)

\* C1: a graph with only static attributes, written by get_formatted_cgr and
\* read back without remap, has the same atom identifiers, elements, charges
\* and bond orders, whatever the integer charges are.
C1_StaticRoundTrip ==
    (pc = "decoded" /\ ~remap /\ StaticGraph(cin)) =>
        /\ dec.raised = "no"
        /\ SameAtoms
        /\ SameBonds

\* the token of a bond order in a transition: absent is written 0
OrderToken(x) ==
    CASE x = NoneOrder -> <<"0">> [] x = 1 -> <<"1">> [] x = 2 -> <<"2">>
      [] x = 3 -> <<"3">> [] x = 4 -> <<"4">> [] x = 9 -> <<"9">>

\* the bond record written for the k-th edge
DynBondRecord(k) ==
    [type |-> "dynbond",
     value |-> OrderToken(cin.edges[k].s_bond) \o <<">">> \o OrderToken(cin.edges[k].p_bond),
     atoms |-> <<Renum(cin, cin.edges[k].a), Renum(cin, cin.edges[k].b)>>]

DynamicEdges == {k \in DOMAIN cin.edges : cin.edges[k].s_bond # cin.edges[k].p_bond}

DecodedEdge(k) == dec.edge[Pair(DecodedId(Renum(cin, cin.edges[k].a)), DecodedId(Renum(cin, cin.edges[k].b)))]

\* C2: a bond whose reagent order x and product order y differ, both among
\* absent, single, double, triple, aromatic and any, is written with bond code
\* 8 and one dynbond record of value 'x>y', and is read back as a bond of
\* reagent order x and product order y.
C2_DynamicBondRoundTrip ==
    /\ pc \in {"encoded", "read", "decoded"} =>
          \A k \in DynamicEdges :
             /\ enc.bonds[k][3] = <<"8">>
             /\ Cardinality({r \in DOMAIN enc.cgr_dat : enc.cgr_dat[r] = DynBondRecord(k)}) = 1
             /\ \A r \in DOMAIN enc.cgr_dat :
                   (enc.cgr_dat[r].type \in {"dynbond", "extrabond"} /\ enc.cgr_dat[r].atoms = DynBondRecord(k).atoms)
                      => enc.cgr_dat[r] = DynBondRecord(k)
    /\ pc = "decoded" =>
          /\ dec.raised = "no"
          /\ \A k \in DynamicEdges :
                /\ DecodedEdge(k).s_bond = Scalar(cin.edges[k].s_bond)
                /\ DecodedEdge(k).p_bond = Scalar(cin.edges[k].p_bond)

\* a single bond that becomes double was written as '1>2' and read back
C2_Witness ==
    /\ pc = "decoded"
    /\ \E k \in DOMAIN cin.edges :
          /\ cin.edges[k].s_bond = 1
          /\ cin.edges[k].p_bond = 2
          /\ \E r \in DOMAIN enc.cgr_dat :
                enc.cgr_dat[r].type = "dynbond" /\ enc.cgr_dat[r].value = <<"1", ">", "2">>
          /\ DecodedEdge(k) = [s_bond |-> Scalar(1), p_bond |-> Scalar(2)]

(***************************************************************************)
(* Properties of the pending records                                       *)
(***************************************************************************)
\* the atoms a record of the type takes: 2 for the bond records, 1 for every other
Arity(type) == IF type \in {"dynbond", "extrabond"} THEN 2 ELSE 1

\* the pending records that have an atom list of the length their type takes
CompleteRecords(p) ==
    SelectSeq(PropValues(p),
              LAMBDA i : "atoms" \in DOMAIN i /\ "type" \in DOMAIN i /\ Len(i.atoms) = Arity(i.type))

\* C11: after any sequence of _collect calls, _get_collected does not raise,
\* returns exactly the pending records whose atom list has the length their
\* type takes, dropping the others (also those without atoms or type), and
\* leaves the pending table empty.
C11_GetCollected ==
    [][pc' = "_get_collected" =>
          /\ collected'.raised = "no"
          /\ collected'.out = CompleteRecords(prop)
          /\ prop' = <<>>]_vars

(***************************************************************************)
(* Properties of the extension records of a block                          *)
(***************************************************************************)
\* the parser of the record's type gives None for its value
RejectedRecord(rec, molecule) ==
    IF rec.type = "dynatom" THEN AtomUpdate(rec.value, molecule.atoms[rec.atoms[1]].charge).out = "None"
    ELSE CgrDat(rec.type, rec.value).out = "None"

\* the block without its k-th record
WithoutRecord(molecule, k) ==
    [molecule EXCEPT !.CGR_DAT = SubSeq(molecule.CGR_DAT, 1, k - 1)
                                    \o SubSeq(molecule.CGR_DAT, k + 1, Len(molecule.CGR_DAT))]

RejectedRecords == {k \in DOMAIN mol.CGR_DAT : RejectedRecord(mol.CGR_DAT[k], mol)}

\* C12: a record whose value its grammar rejects does not make
\* __parse_molecule raise; the graph is the one built from the block without
\* that record.
C12_RejectedRecordDiscarded ==
    pc = "decoded" =>
        \A k \in RejectedRecords :
           /\ dec.raised = "no"
           /\ dec = ParseMolecule(WithoutRecord(mol, k), Remapped(mol, remap))

(***************************************************************************)
(* Properties of the cache of derived results                              *)
(***************************************************************************)
\* an in-place call has returned
InPlaceReturned ==
    \/ pc = "reset_query_marks returned" /\ ~ret.copy
    \/ pc \in Returned \ {"reset_query_marks returned"} /\ ret.raised = "no"

\* cached results are held that were derived from another graph than g
Stale == cache /\ g # g0

\* C13: an in-place reset_query_marks, implicify_hydrogens or
\* explicify_hydrogens has flushed the cache when it returns, and between the
\* calls of any sequence the cache is never stale; reset_query_marks(copy=True)
\* leaves the receiver's atoms, bonds and cache as they are and returns the
\* marked clone.
C13_CacheNeverStale ==
    /\ [](InPlaceReturned => ~cache)
    /\ [](pc \in Returned \cup {"ready"} => ~Stale)
    /\ [][(pc = "reset_query_marks" /\ rq.copy) => (g' = g /\ cache' = cache)]_vars
    /\ []((pc = "reset_query_marks returned" /\ ret.copy) =>
             \A n \in Nodes(g) : ret.graph.atom[n].hybridization >= 1)

(***************************************************************************)
(* Properties of the value of a dynamic or list record                     *)
(***************************************************************************)
DynamicTypes == {"dynbond", "dynatomhyb", "dynatomneighbors"}

\* a token of two labels around '>'
IsPair(tok) == Len(Split(tok, ">")) = 2

\* a token that denotes a transition: two different labels around '>'
Transition(tok) == IsPair(tok) /\ Split(tok, ">")[1] # Split(tok, ">")[2]

\* the value a label stands for: none for 0 and n
LabelValue(l) == IF l \in {<<"0">>, <<"n">>} THEN NoneOrder ELSE ParseInt(l).val

\* the (reagent, product) pair a token decodes to
PairOf(tok) ==
    IF IsPair(tok) THEN <<LabelValue(Split(tok, ">")[1]), LabelValue(Split(tok, ">")[2])>>
    ELSE <<LabelValue(tok), LabelValue(tok)>>

PairsOf(toks) == [k \in DOMAIN toks |-> PairOf(toks[k])]

Firsts(pairs) == [k \in DOMAIN pairs |-> pairs[k][1]]

Seconds(pairs) == [k \in DOMAIN pairs |-> pairs[k][2]]

\* the value is in the grammar of its record type: pairs for a dynamic record, labels for a list record
WellFormed(type, toks) ==
    IF type \in DynamicTypes THEN \A k \in DOMAIN toks : IsPair(toks[k])
    ELSE \A k \in DOMAIN toks : ~IsPair(toks[k])

\* the call gave a dict with these reagent, product and combined values
Yields(sv, pv, spv) == dec.out = "dict" /\ dec.s = sv /\ dec.p = pv /\ dec.sp = spv

StatedRule(toks, pairs) ==
    /\ (Len(toks) = 1 /\ Transition(toks[1])) =>
           Yields(Scalar(pairs[1][1]), Scalar(pairs[1][2]), Scalar(pairs[1]))
    /\ (Len(toks) = 1 /\ ~Transition(toks[1])) =>
           /\ dec.s = Scalar(pairs[1][1]) /\ dec.p = Scalar(pairs[1][1])
           /\ pairs[1][1] # NoneOrder => dec.out = "dict"
    /\ Len(toks) > 1 =>
           /\ dec.out = "dict" => Distinct(pairs)
           /\ ~Distinct(pairs) => dec.out = "None"

DynamicRule(pairs) ==
    IF Len(pairs) = 0 THEN dec.out = "None"
    ELSE IF Len(pairs) = 1 THEN Yields(Scalar(pairs[1][1]), Scalar(pairs[1][2]), Scalar(pairs[1]))
    ELSE IF Distinct(pairs) THEN Yields(List(Firsts(pairs)), List(Seconds(pairs)), List(pairs))
    ELSE dec.out = "None"

\* a list record: one value for both sides and the combined key
ListRule(vals) ==
    IF Len(vals) = 1
    THEN (IF vals[1] # NoneOrder THEN Yields(Scalar(vals[1]), Scalar(vals[1]), Scalar(vals[1]))
          ELSE dec.out = "None")
    ELSE IF Distinct(vals) THEN Yields(List(vals), List(vals), List(vals))
    ELSE dec.out = "None"

HydrogenNeighbours(gr, n) == {m \in Range(gr.adj[n]) : gr.atom[m].element = "H"}

HeavyNeighbours(gr, n) == {m \in Range(gr.adj[n]) : gr.atom[m].element # "H"}

\* the hydrogens bonded to more than one non-hydrogen atom or to another hydrogen
ProtectedHydrogens(gr) ==
    {n \in Nodes(gr) : /\ gr.atom[n].element = "H"
                       /\ \/ Cardinality(HeavyNeighbours(gr, n)) > 1
                          \/ HydrogenNeighbours(gr, n) # {}}

\* C15: implicify_hydrogens never removes a hydrogen bonded to more than one
\* non-hydrogen atom or to another hydrogen, completes without error, and
\* returns the number of atoms by which the node set shrank.
C15_BridgingHydrogenKept ==
    pc = "implicify_hydrogens" =>
        /\ ProtectedHydrogens(g0) \subseteq Nodes(g)
        /\ ret.raised = "no"
        /\ ret.value = Cardinality(Nodes(g0)) - Cardinality(Nodes(g))

(***************************************************************************)
(* Properties of the depth marks of a parsed block                         *)
(***************************************************************************)
\* the identifier of the atom at position k of the block
NodeOf(k) == Remapped(mol, remap)[k]

\* the stereo code of the bond line, and its mark
WedgeCode == mol.bonds[1][4]

WedgeMark == IF WedgeCode = 1 THEN 1 ELSE -1

\* the far atom of the bond line
FarAtom == NodeOf(mol.bonds[1][2])

\* some atom of the block has a nonzero z-coordinate
SomeZ == \E k \in DOMAIN mol.atoms : mol.atoms[k].z # 0

\* the product-z of some atom of the parsed graph is below the threshold
SomeLowProductZ == \E i \in DOMAIN dec.node : dec.node[i].p_z < ZThreshold

\* the values of the depth-mark records of the atom at a position, in order
DepthRecords(k) ==
    SelectSeq(mol.CGR_DAT, LAMBDA r : r.type = "dynatom" /\ r.atoms = <<k>> /\ Head(r.value) = "z")

\* the value of the last depth-mark record of the far atom
DeferredMark == ParseInt(Tail(DepthRecords(mol.bonds[1][2])[Len(DepthRecords(mol.bonds[1][2]))].value)).val

HasMark(i, key) == key \in DOMAIN dec.node[i]

\* the product-side mark the far atom is to get: its record's value, else the wedge mark
ProductMark ==
    IF DepthRecords(mol.bonds[1][2]) # <<>>
    THEN (DeferredMark = 0 /\ ~HasMark(FarAtom, "p_dz")) \/ (HasMark(FarAtom, "p_dz") /\ dec.node[FarAtom].p_dz = DeferredMark)
    ELSE HasMark(FarAtom, "p_dz") /\ dec.node[FarAtom].p_dz = WedgeMark

\* C16: a nonzero z-coordinate of any atom leaves every atom without s_dz; a
\* product-z below 0.0001 of any atom leaves every atom without p_dz;
\* otherwise a bond with stereo code 1 or 6 marks its second atom +1 or -1
\* on both sides, except that the value of a depth-mark record of that atom
\* is its product-side mark.
C16_StereoInvalidation ==
    (pc = "decoded" /\ dec.raised = "no") =>
        /\ SomeZ => \A i \in DOMAIN dec.node : ~HasMark(i, "s_dz")
        /\ SomeLowProductZ => \A i \in DOMAIN dec.node : ~HasMark(i, "p_dz")
        /\ (~SomeZ /\ WedgeCode \in {1, 6}) => (HasMark(FarAtom, "s_dz") /\ dec.node[FarAtom].s_dz = WedgeMark)
        /\ (~SomeLowProductZ /\ WedgeCode \in {1, 6}) => ProductMark

(***************************************************************************)
(* Properties of the scan order of reset_query_marks                       *)
(***************************************************************************)
RECURSIVE HybridizationScan(_, _)
\* lines 85-101 over the incident orders of an atom in a given scan order
HybridizationScan(orders, hybridization) ==
    IF orders = <<>> THEN hybridization
    ELSE HybridizationScan(Tail(orders),
                           IF Truthy(Head(orders)) THEN HybridizationStep(hybridization, Head(orders))
                           ELSE hybridization)

\* the scan orders of k incident bonds
ScanOrders(k) == {f \in [1..k -> 1..k] : \A i, j \in 1..k : f[i] = f[j] => i = j}

Rescanned(orders, f) == [j \in DOMAIN orders |-> orders[f[j]]]

\* C17: the hybridization class reset_query_marks gives an atom on a side is
\* the class every other scan order of the same incident bonds gives.
C17_ScanOrderIndependent ==
    pc = "reset_query_marks returned" =>
        \A n \in Nodes(Marked) : \A f \in ScanOrders(Len(Marked.adj[n])) :
           /\ Marked.atom[n].hybridization = HybridizationScan(Rescanned(IncidentOrders(Marked, n), f), 1)
           /\ Marked.atom[n].p_hybridization = HybridizationScan(Rescanned(IncidentPOrders(Marked, n), f), 1)

====
